---------------------------- MODULE Spec2Model ----------------------------
(***************************************************************************)
(* The signal engine of etf-challenger: ETFAnalyzer (analysis/analyzer.py)  *)
(* computes the indicator columns of a price table and TradingAdvisor       *)
(* (analysis/advisor.py) turns the table into a TradingSignal.              *)
(*                                                                          *)
(* Numbers.  The program computes in IEEE doubles.  Here every float x is   *)
(* the integer x * 10^6 (fixed point, "micro" units), quotients truncated   *)
(* towards zero; a missing value (NaN) is the empty tuple and a present     *)
(* value x the 1-tuple <<x>>, so that every comparison with NaN is FALSE as *)
(* in the program.  The raw columns of a table (close, high, low: micro     *)
(* units; volume: lots) never hold NaN and are plain integers.              *)
(***************************************************************************)
EXTENDS Integers, Sequences, FiniteSets, TLC

VARIABLES
    df,            \* the price table handed to the analyzer / advisor
    premium_rate,  \* the premium_rate argument of the last analyze call
    score,         \* the aggregate score last handed to _get_signal_type
    signal,        \* what the last call returned (None before any call)
    strategy,      \* the ScoringStrategy the ETFScorer was constructed with
    call,          \* the last call on the scorer or the explainer
    result,        \* what that call returned
    wrapper,       \* the frame of one call through the retry wrapper
    service,       \* the ETFDataService: its clock, one cache and its last return
    reporter,      \* the BatchReportGenerator: its clock, the history cache of its data service, its last return
    job,           \* the ReportJob: the call being made on it and what it returned
    scheduler,     \* the ReportScheduler: the day, its mail settings and what its last job run did
    daemon         \* the MonitorDaemon invocations, the daemon processes and the PID file

vars == <<df, premium_rate, score, signal, strategy, call, result, wrapper,
          service, reporter, job, scheduler, daemon>>

\* the variables of the recommendation package
scorer_vars == <<strategy, call, result>>

-----------------------------------------------------------------------------
(* Fixed point *)

Micro == 10^6

\* Python's None where a float may stand (Optional[float]); like NaN, no number
None == <<>>

NaN == <<>>

F(x) == <<x>>

IsNaN(v) == v = NaN

Abs(x) == IF x < 0 THEN -x ELSE x

Min(a, b) == IF a <= b THEN a ELSE b

Max(a, b) == IF a >= b THEN a ELSE b

\* a / b truncated towards zero (b > 0)
Quot(a, b) == IF a >= 0 THEN a \div b ELSE -((-a) \div b)

\* Comparisons of two floats either of which may be NaN
Lt(a, b) == ~IsNaN(a) /\ ~IsNaN(b) /\ a[1] < b[1]

Le(a, b) == ~IsNaN(a) /\ ~IsNaN(b) /\ a[1] <= b[1]

Gt(a, b) == Lt(b, a)

Ge(a, b) == Le(b, a)

-----------------------------------------------------------------------------
(* advisor.py: SignalType, IndicatorSignal *)

STRONG_BUY == "STRONG_BUY"

BUY == "BUY"

HOLD == "HOLD"

SELL == "SELL"

STRONG_SELL == "STRONG_SELL"

SignalType == {STRONG_BUY, BUY, HOLD, SELL, STRONG_SELL}

BULLISH == "BULLISH"

NEUTRAL == "NEUTRAL"

BEARISH == "BEARISH"

IndicatorSignal == {BULLISH, NEUTRAL, BEARISH}

\* x tenths as a float: Tenths(6) is 0.6
Tenths(x) == (x * Micro) \div 10

-----------------------------------------------------------------------------
(* TradingAdvisor._get_signal_type *)

\* _get_signal_type with strict comparisons at the four thresholds
get_signal_type_strict(s) ==
    LET confidence == Abs(s)
    IN  IF s > Tenths(6)
          THEN <<STRONG_BUY, Min(confidence * 100, 95 * Micro)>>
        ELSE IF s > Tenths(2)
          THEN <<BUY, Min(confidence * 100, 80 * Micro)>>
        ELSE IF s < -Tenths(6)
          THEN <<STRONG_SELL, Min(confidence * 100, 95 * Micro)>>
        ELSE IF s < -Tenths(2)
          THEN <<SELL, Min(confidence * 100, 80 * Micro)>>
        ELSE <<HOLD, 50 * Micro>>

\* _get_signal_type without the caps of 95 and 80 on the confidence
get_signal_type_uncapped(s) ==
    LET confidence == Abs(s)
    IN  IF s >= Tenths(6)
          THEN <<STRONG_BUY, confidence * 100>>
        ELSE IF s >= Tenths(2)
          THEN <<BUY, confidence * 100>>
        ELSE IF s <= -Tenths(6)
          THEN <<STRONG_SELL, confidence * 100>>
        ELSE IF s <= -Tenths(2)
          THEN <<SELL, confidence * 100>>
        ELSE <<HOLD, 50 * Micro>>

get_signal_type(s) ==
    LET confidence == Abs(s)
    IN  IF s >= Tenths(6)
          THEN <<STRONG_BUY, Min(confidence * 100, 95 * Micro)>>
        ELSE IF s >= Tenths(2)
          THEN <<BUY, Min(confidence * 100, 80 * Micro)>>
        ELSE IF s <= -Tenths(6)
          THEN <<STRONG_SELL, Min(confidence * 100, 95 * Micro)>>
        ELSE IF s <= -Tenths(2)
          THEN <<SELL, Min(confidence * 100, 80 * Micro)>>
        ELSE <<HOLD, 50 * Micro>>

-----------------------------------------------------------------------------
(* Tables.  A table is a record of columns, each a sequence of one value   *)
(* per bar; "MA5" \in DOMAIN d is the program's 'MA5' in df.columns.        *)

Rows(d) == Len(d.close)

Has(d, c) == c \in DOMAIN d

\* col.iloc[-1] and col.iloc[-2]
ILast(col) == col[Len(col)]

IPrev(col) == col[Len(col) - 1]

\* col.tail(k)
Tail_(col, k) == SubSeq(col, Max(1, Len(col) - k + 1), Len(col))

RECURSIVE SumSeq(_)
SumSeq(q) == IF q = <<>> THEN 0 ELSE q[1] + SumSeq(Tail(q))

RECURSIVE LongDiv(_, _, _)
LongDiv(r, b, k) ==
    IF k = 0 THEN 0
    ELSE LET q == (r * 10) \div b
         IN  q * 10^(k - 1) + LongDiv(r * 10 - q * b, b, k - 1)

\* the float a / b of two numbers in the same unit (b > 0), in micro units
FDiv(a, b) ==
    IF a >= 0 THEN (a \div b) * Micro + LongDiv(a % b, b, 6)
    ELSE -(((-a) \div b) * Micro + LongDiv((-a) % b, b, 6))

RECURSIVE ISqrtBetween(_, _, _)
ISqrtBetween(x, lo, hi) ==
    IF lo = hi THEN lo
    ELSE LET mid == (lo + hi + 1) \div 2
         IN  IF mid * mid <= x THEN ISqrtBetween(x, mid, hi)
             ELSE ISqrtBetween(x, lo, mid - 1)

\* floor of the square root
ISqrt(x) == ISqrtBetween(x, 0, Min(x, 46340))

\* Python's round(x, 3) of a float in micro units: to a multiple of 10^-3,
\* a tie to the even neighbour
Round3(x) ==
    LET r == x % 1000
        lo == x - r
    IN  IF r < 500 THEN lo
        ELSE IF r > 500 THEN lo + 1000
        ELSE IF (lo \div 1000) % 2 = 0 THEN lo ELSE lo + 1000

-----------------------------------------------------------------------------
(* TradingAdvisor.__init__ *)

weights ==
    [ma_cross |-> 20, rsi |-> 15, macd |-> 20, bollinger |-> 15,
     trend |-> 15, volume |-> 10, premium |-> 5]

(* TradingAdvisor._analyze_ma_cross *)
analyze_ma_cross(d) ==
    IF ~Has(d, "MA5") \/ ~Has(d, "MA20") THEN <<NEUTRAL, 0>>
    ELSE LET ma5 == ILast(d.MA5)
             ma20 == ILast(d.MA20)
             ma5_prev == IF Rows(d) > 1 THEN IPrev(d.MA5) ELSE ma5
             ma20_prev == IF Rows(d) > 1 THEN IPrev(d.MA20) ELSE ma20
         IN  IF Le(ma5_prev, ma20_prev) /\ Gt(ma5, ma20) THEN <<BULLISH, Tenths(10)>>
             ELSE IF Ge(ma5_prev, ma20_prev) /\ Lt(ma5, ma20) THEN <<BEARISH, -Tenths(10)>>
             ELSE IF Gt(ma5, ma20) THEN <<BULLISH, Tenths(5)>>
             ELSE IF Lt(ma5, ma20) THEN <<BEARISH, -Tenths(5)>>
             ELSE <<NEUTRAL, 0>>

(* TradingAdvisor._analyze_rsi: the tests run in the order of the source,   *)
(* "< 30" before "< 20" and "> 70" before "> 80"                            *)
analyze_rsi(d) ==
    IF ~Has(d, "RSI") THEN <<NEUTRAL, 0>>
    ELSE LET rsi == ILast(d.RSI)
         IN  IF IsNaN(rsi) THEN <<NEUTRAL, 0>>
             ELSE IF Lt(rsi, F(30 * Micro)) THEN <<BULLISH, Tenths(8)>>
             ELSE IF Lt(rsi, F(20 * Micro)) THEN <<BULLISH, Tenths(10)>>
             ELSE IF Gt(rsi, F(70 * Micro)) THEN <<BEARISH, -Tenths(8)>>
             ELSE IF Gt(rsi, F(80 * Micro)) THEN <<BEARISH, -Tenths(10)>>
             ELSE IF Le(F(40 * Micro), rsi) /\ Le(rsi, F(60 * Micro)) THEN <<NEUTRAL, 0>>
             ELSE IF Le(F(30 * Micro), rsi) /\ Lt(rsi, F(40 * Micro)) THEN <<BULLISH, Tenths(3)>>
             ELSE IF Lt(F(60 * Micro), rsi) /\ Le(rsi, F(70 * Micro)) THEN <<BEARISH, -Tenths(3)>>
             ELSE <<NEUTRAL, 0>>

\* a - b of two floats, NaN if either is
FSub(a, b) == IF IsNaN(a) \/ IsNaN(b) THEN NaN ELSE F(a[1] - b[1])

(* TradingAdvisor._analyze_macd *)
analyze_macd(d) ==
    IF ~Has(d, "MACD") \/ ~Has(d, "Signal") THEN <<NEUTRAL, 0>>
    ELSE LET macd == ILast(d.MACD)
             sig == ILast(d.Signal)
             histogram == IF Has(d, "Histogram") THEN ILast(d.Histogram)
                          ELSE FSub(macd, sig)
             macd_prev == IF Rows(d) > 1 THEN IPrev(d.MACD) ELSE macd
             signal_prev == IF Rows(d) > 1 THEN IPrev(d.Signal) ELSE sig
         IN  IF Le(macd_prev, signal_prev) /\ Gt(macd, sig) THEN <<BULLISH, Tenths(10)>>
             ELSE IF Ge(macd_prev, signal_prev) /\ Lt(macd, sig) THEN <<BEARISH, -Tenths(10)>>
             ELSE IF Gt(macd, F(0)) /\ Gt(histogram, F(0)) THEN <<BULLISH, Tenths(6)>>
             ELSE IF Lt(macd, F(0)) /\ Lt(histogram, F(0)) THEN <<BEARISH, -Tenths(6)>>
             ELSE <<NEUTRAL, 0>>

\* (a + b) / 2 of two floats
FMid(a, b) == IF IsNaN(a) \/ IsNaN(b) THEN NaN ELSE F(Quot(a[1] + b[1], 2))

(* TradingAdvisor._analyze_bollinger *)
analyze_bollinger(d) ==
    IF ~Has(d, "BB_Upper") \/ ~Has(d, "BB_Lower") THEN <<NEUTRAL, 0>>
    ELSE LET price == F(ILast(d.close))
             bb_upper == ILast(d.BB_Upper)
             bb_lower == ILast(d.BB_Lower)
             bb_middle == IF Has(d, "BB_Middle") THEN ILast(d.BB_Middle)
                          ELSE FMid(bb_upper, bb_lower)
         IN  IF Le(price, bb_lower) THEN <<BULLISH, Tenths(8)>>
             ELSE IF Ge(price, bb_upper) THEN <<BEARISH, -Tenths(8)>>
             ELSE IF Lt(price, bb_middle) THEN <<BULLISH, Tenths(3)>>
             ELSE IF Gt(price, bb_middle) THEN <<BEARISH, -Tenths(3)>>
             ELSE <<NEUTRAL, 0>>

\* np.polyfit(np.arange(n), prices, 1)[0]: the least-squares slope.  Only its
\* sign is read; the value kept is sum((2i - n - 1) * prices[i]), a positive
\* multiple of the slope.  A single point scales the x column by 0/0 and the
\* coefficients, when lstsq returns any, are NaN.
polyfit_slope(prices) ==
    LET n == Len(prices)
    IN  IF n = 1 THEN NaN
        ELSE F(SumSeq([i \in 1..n |-> (2 * i - n - 1) * prices[i]]))

\* np.linalg.lstsq inside np.polyfit.  On a single point x = [0] the matrix
\* handed to LAPACK holds the NaN of the 0/0 column scale.  A LAPACK whose
\* DLASCL rejects a NaN scale factor reports an error, which numpy raises as
\* LinAlgError; one that lets the NaN through returns NaN coefficients.  Both
\* are outcomes of the call, according to the build.
polyfit_raises(prices) == IF Len(prices) = 1 THEN BOOLEAN ELSE {FALSE}

(* TradingAdvisor._analyze_trend (prices are positive) *)
analyze_trend(d) ==
    LET recent_days == Min(20, Rows(d))
        prices == Tail_(d.close, recent_days)
        slope == polyfit_slope(prices)
        price_change_pct == FDiv((ILast(prices) - prices[1]) * 100, prices[1])
    IN  IF Gt(slope, F(0)) /\ price_change_pct > 5 * Micro THEN <<BULLISH, Tenths(8)>>
        ELSE IF Gt(slope, F(0)) /\ price_change_pct > 0 THEN <<BULLISH, Tenths(5)>>
        ELSE IF Lt(slope, F(0)) /\ price_change_pct < -5 * Micro THEN <<BEARISH, -Tenths(8)>>
        ELSE IF Lt(slope, F(0)) /\ price_change_pct < 0 THEN <<BEARISH, -Tenths(5)>>
        ELSE <<NEUTRAL, 0>>

(* TradingAdvisor._analyze_volume.  recent_volume and avg_volume are the     *)
(* means s5/k and s/n of whole numbers of lots; volume_ratio > 1.5 is        *)
(* decided exactly as 2*s5*n > 3*s*k, and < 0.7 as 10*s5*n < 7*s*k.          *)
analyze_volume(d) ==
    IF ~Has(d, "volume") THEN <<NEUTRAL, 0>>
    ELSE LET n == Rows(d)
             k == Min(5, n)
             s5 == SumSeq(Tail_(d.volume, 5))
             s == SumSeq(d.volume)
             price_change == IF n > 1 THEN ILast(d.close) - IPrev(d.close) ELSE 0
         IN  IF s5 = 0 \/ s = 0 THEN <<NEUTRAL, 0>>
             ELSE IF 2 * s5 * n > 3 * s * k /\ price_change > 0 THEN <<BULLISH, Tenths(7)>>
             ELSE IF 2 * s5 * n > 3 * s * k /\ price_change < 0 THEN <<BEARISH, -Tenths(7)>>
             ELSE IF 10 * s5 * n < 7 * s * k /\ price_change > 0 THEN <<NEUTRAL, Tenths(2)>>
             ELSE <<NEUTRAL, 0>>

(* TradingAdvisor._analyze_premium (premium is a present float, in percent) *)
analyze_premium(premium) ==
    IF premium[1] < -3 * Micro THEN <<BULLISH, Tenths(8)>>
    ELSE IF premium[1] < -1 * Micro THEN <<BULLISH, Tenths(5)>>
    ELSE IF premium[1] > 3 * Micro THEN <<BEARISH, -Tenths(8)>>
    ELSE IF premium[1] > 1 * Micro THEN <<BEARISH, -Tenths(5)>>
    ELSE <<NEUTRAL, 0>>

-----------------------------------------------------------------------------
(* TradingAdvisor._generate_reasons.  A reason string is modelled by its    *)
(* name; the numbers formatted into it are left out.                        *)

\* Python's truth value of a float: 0.0 is false, everything else (NaN too) true
Truthy(v) == IsNaN(v) \/ v[1] # 0

\* .iloc[-2] on a table of one row raises IndexError (lines 370 and 390)
reasons_raise(signals, d) ==
    Rows(d) < 2 /\ (signals.ma = BULLISH \/ signals.macd = BULLISH)

ma_reasons(signals, d) ==
    IF signals.ma = BULLISH
      THEN IF Has(d, "MA5") /\ Has(d, "MA20")
             THEN IF Le(IPrev(d.MA5), IPrev(d.MA20)) /\ Gt(ILast(d.MA5), ILast(d.MA20))
                    THEN <<"ma_golden_cross">>
                    ELSE <<"ma_bullish_alignment">>
             ELSE <<>>
    ELSE IF signals.ma = BEARISH THEN <<"ma_bearish_alignment">>
    ELSE <<>>

rsi_reasons(signals, d) ==
    LET rsi == IF Has(d, "RSI") THEN ILast(d.RSI) ELSE NaN
        present == Has(d, "RSI") /\ Truthy(rsi)
    IN  IF signals.rsi = BULLISH
          THEN IF present /\ Lt(rsi, F(30 * Micro)) THEN <<"rsi_oversold">> ELSE <<>>
        ELSE IF signals.rsi = BEARISH
          THEN IF present /\ Gt(rsi, F(70 * Micro)) THEN <<"rsi_overbought">> ELSE <<>>
        ELSE <<>>

macd_reasons(signals, d) ==
    IF signals.macd = BULLISH
      THEN IF Has(d, "MACD") /\ Has(d, "Signal")
             THEN IF Le(IPrev(d.MACD), IPrev(d.Signal)) /\ Gt(ILast(d.MACD), ILast(d.Signal))
                    THEN <<"macd_golden_cross">>
                    ELSE <<"macd_bullish">>
             ELSE <<>>
    ELSE IF signals.macd = BEARISH THEN <<"macd_bearish">>
    ELSE <<>>

trend_reasons(signals, d) ==
    IF signals.trend = BULLISH
      THEN LET n == Rows(d)
               recent_change == IF n >= 20
                                  THEN FDiv((d.close[n] - d.close[n - 19]) * 100, d.close[n - 19])
                                  ELSE 0
           IN  IF recent_change > 5 * Micro THEN <<"trend_strong_rise">>
               ELSE <<"trend_rising">>
    ELSE IF signals.trend = BEARISH THEN <<"trend_falling">>
    ELSE <<>>

premium_reasons(signals, premium) ==
    IF premium # None
      THEN IF signals.premium = BULLISH THEN <<"discount">>
           ELSE IF signals.premium = BEARISH THEN <<"premium">>
           ELSE <<>>
    ELSE <<>>

NeutralReason == "indicators_neutral"

generate_reasons(signals, d, premium) ==
    LET reasons == ma_reasons(signals, d) \o rsi_reasons(signals, d)
                   \o macd_reasons(signals, d) \o trend_reasons(signals, d)
                   \o premium_reasons(signals, premium)
    IN  IF reasons = <<>> THEN <<NeutralReason>> ELSE reasons

-----------------------------------------------------------------------------
(* TradingAdvisor._assess_risk *)

\* df['收盘'].pct_change().dropna(): one return per bar after the first
pct_change(col) ==
    [i \in 1..(Len(col) - 1) |-> FDiv(col[i + 1] - col[i], col[i])]

\* Series.std() (ddof = 1) in micro units, NaN for fewer than two values.  The
\* deviations are squared in units of 10^-4.
std(xs) ==
    LET n == Len(xs)
        mean == Quot(SumSeq(xs), n)
        sq == SumSeq([i \in 1..n |-> Quot(xs[i] - mean, 100) * Quot(xs[i] - mean, 100)])
    IN  IF n < 2 THEN NaN ELSE F(ISqrt((sq \div (n - 1)) * 100) * 10)

\* returns.std() * np.sqrt(252) * 100, in percent; sqrt(252) * 100 is 1587.4508
annual_volatility(returns) ==
    LET sd == std(returns)
    IN  IF IsNaN(sd) THEN NaN ELSE F(sd[1] * 1587 + Quot(sd[1] * 4508, 10^4))

RISK_HIGH == "HIGH"

RISK_MEDIUM == "MEDIUM"

RISK_LOW == "LOW"

\* _assess_risk with the MEDIUM threshold of line 431 at 25
assess_risk_medium_from_25(d) ==
    LET returns == pct_change(d.close)
        volatility == annual_volatility(returns)
    IN  IF Len(returns) = 0 THEN RISK_MEDIUM
        ELSE IF Gt(volatility, F(30 * Micro)) THEN RISK_HIGH
        ELSE IF Gt(volatility, F(25 * Micro)) THEN RISK_MEDIUM
        ELSE RISK_LOW

assess_risk(d) ==
    LET returns == pct_change(d.close)
        volatility == annual_volatility(returns)
    IN  IF Len(returns) = 0 THEN RISK_MEDIUM
        ELSE IF Gt(volatility, F(30 * Micro)) THEN RISK_HIGH
        ELSE IF Gt(volatility, F(20 * Micro)) THEN RISK_MEDIUM
        ELSE RISK_LOW

-----------------------------------------------------------------------------
(* TradingAdvisor._calculate_price_levels *)

\* Series.mean(): the mean of the values that are not NaN, NaN if there is none
RECURSIVE NanSum(_)
NanSum(q) ==
    IF q = <<>> THEN 0
    ELSE (IF IsNaN(q[1]) THEN 0 ELSE q[1][1]) + NanSum(Tail(q))

NanCount(q) == Cardinality({i \in 1..Len(q) : ~IsNaN(q[i])})

NanMean(q) == IF NanCount(q) = 0 THEN NaN ELSE F(Quot(NanSum(q), NanCount(q)))

\* close.shift(1) of the 14-bar tail: the value of the bar before, NaN for the
\* first bar of the tail
Shift1(col) == [i \in 1..Len(col) |-> IF i = 1 THEN NaN ELSE F(col[i - 1])]

\* np.maximum and np.abs propagate NaN
FMax(a, b) == IF IsNaN(a) \/ IsNaN(b) THEN NaN ELSE F(Max(a[1], b[1]))

FAbs(a) == IF IsNaN(a) THEN NaN ELSE F(Abs(a[1]))

\* lines 447-453: tr over the trailing 14 bars
true_range(d) ==
    LET high == Tail_(d.high, 14)
        low == Tail_(d.low, 14)
        prev_close == Shift1(Tail_(d.close, 14))
    IN  [i \in 1..Len(high) |->
           FMax(FMax(F(high[i] - low[i]), FAbs(FSub(F(high[i]), prev_close[i]))),
                FAbs(FSub(F(low[i]), prev_close[i])))]

average_true_range(d) == NanMean(true_range(d))

\* _calculate_price_levels without the rounding of line 467
calculate_price_levels_unrounded(current_price, signal_type, d) ==
    IF Rows(d) < 14 THEN <<None, None>>
    ELSE LET atr == average_true_range(d)[1]
         IN  IF signal_type \in {STRONG_BUY, BUY}
               THEN <<F(current_price + 2 * atr), F(current_price - atr)>>
             ELSE IF signal_type \in {STRONG_SELL, SELL}
               THEN <<F(current_price - 2 * atr), F(current_price + atr)>>
             ELSE <<None, None>>

calculate_price_levels(current_price, signal_type, d) ==
    IF Rows(d) < 14 THEN <<None, None>>
    ELSE LET atr == average_true_range(d)[1]
         IN  IF signal_type \in {STRONG_BUY, BUY}
               THEN <<F(Round3(current_price + 2 * atr)), F(Round3(current_price - atr))>>
             ELSE IF signal_type \in {STRONG_SELL, SELL}
               THEN <<F(Round3(current_price - 2 * atr)), F(Round3(current_price + atr))>>
             ELSE <<None, None>>

-----------------------------------------------------------------------------
(* TradingAdvisor.analyze *)

\* the seven sub-signals, each <<IndicatorSignal, strength>>; premium only
\* when a premium rate is given
sub_signals(d, premium) ==
    [ma |-> analyze_ma_cross(d), rsi |-> analyze_rsi(d), macd |-> analyze_macd(d),
     bollinger |-> analyze_bollinger(d), trend |-> analyze_trend(d),
     volume |-> analyze_volume(d)]
    @@ (IF premium = None THEN <<>> ELSE [premium |-> analyze_premium(premium)])

\* lines 106-108
\* total_weight without the subtraction of line 108
total_weight_always_100(premium) ==
    weights.ma_cross + weights.rsi + weights.macd + weights.bollinger
    + weights.trend + weights.volume + weights.premium

total_weight(premium) ==
    weights.ma_cross + weights.rsi + weights.macd + weights.bollinger
    + weights.trend + weights.volume + weights.premium
    - (IF premium = None THEN weights.premium ELSE 0)

\* lines 66-110: sum(scores) / total_weight, for the sub-signals sub
final_score(sub, premium) ==
    LET scores == sub.ma[2] * weights.ma_cross + sub.rsi[2] * weights.rsi
                  + sub.macd[2] * weights.macd + sub.bollinger[2] * weights.bollinger
                  + sub.trend[2] * weights.trend + sub.volume[2] * weights.volume
                  + (IF premium = None THEN 0 ELSE sub.premium[2] * weights.premium)
    IN  Quot(scores, total_weight(premium))

NoSignal == [kind |-> "none"]

NoCall == [method |-> "none"]

NoResult == [kind |-> "none"]

\* ScoringStrategy; ETFScorer() defaults to BALANCED
CONSERVATIVE_STRATEGY == "conservative"

BALANCED_STRATEGY == "balanced"

AGGRESSIVE_STRATEGY == "aggressive"

ScoringStrategy == {CONSERVATIVE_STRATEGY, BALANCED_STRATEGY, AGGRESSIVE_STRATEGY}

RaisedIndexError == [kind |-> "raised", error |-> "IndexError"]

RaisedLinAlgError == [kind |-> "raised", error |-> "LinAlgError"]

\* the result of analyze: the TradingSignal returned (or the exception
\* raised), with the final_score it was derived from.  lstsq_fails is the
\* outcome of np.polyfit in _analyze_trend.
analyze(d, premium, lstsq_fails) ==
    LET sub == sub_signals(d, premium)
        signals == [k \in DOMAIN sub |-> sub[k][1]]
        score_ == final_score(sub, premium)
        typed == get_signal_type(score_)
        current_price == ILast(d.close)
        levels == calculate_price_levels(current_price, typed[1], d)
    IN  IF lstsq_fails
          THEN [final_score |-> NaN, returned |-> RaisedLinAlgError]
        ELSE IF reasons_raise(signals, d)
          THEN [final_score |-> F(score_), returned |-> RaisedIndexError]
          ELSE [final_score |-> F(score_),
                returned |->
                  [kind |-> "signal",
                   signal_type |-> typed[1],
                   confidence |-> typed[2],
                   reasons |-> generate_reasons(signals, d, premium),
                   indicators |-> signals,
                   risk_level |-> assess_risk(d),
                   price_target |-> levels[1],
                   stop_loss |-> levels[2]]]

-----------------------------------------------------------------------------
(* analyzer.py: ETFAnalyzer.  Every calculate_* returns a copy of the table *)
(* with its columns added.                                                  *)

\* Series.rolling(window).mean(): NaN until the window is full
rolling_mean(col, window) ==
    [i \in 1..Len(col) |->
       IF i < window THEN NaN
       ELSE F(Quot(SumSeq(SubSeq(col, i - window + 1, i)), window))]

\* Series.rolling(window).std()
rolling_std(col, window) ==
    [i \in 1..Len(col) |->
       IF i < window THEN NaN ELSE std(SubSeq(col, i - window + 1, i))]

(* ETFAnalyzer.calculate_moving_averages, windows [5, 10, 20, 60] *)
calculate_moving_averages(d) ==
    [MA5 |-> rolling_mean(d.close, 5), MA10 |-> rolling_mean(d.close, 10),
     MA20 |-> rolling_mean(d.close, 20), MA60 |-> rolling_mean(d.close, 60)] @@ d

\* 100 - (100 / (1 + avg_gain / avg_loss)): x / 0 is inf and 100 / inf is 0,
\* 0 / 0 is NaN
rsi_value(avg_gain, avg_loss) ==
    IF IsNaN(avg_gain) \/ IsNaN(avg_loss) THEN NaN
    ELSE IF avg_loss[1] = 0
      THEN IF avg_gain[1] = 0 THEN NaN ELSE F(100 * Micro)
    ELSE LET rs == FDiv(avg_gain[1], avg_loss[1])
         IN  F(100 * Micro - FDiv(100 * Micro, Micro + rs))

(* ETFAnalyzer.calculate_rsi, period 14.  delta is NaN on the first bar,    *)
(* where delta.where(delta > 0, 0) puts 0.                                  *)
calculate_rsi(d) ==
    LET n == Rows(d)
        delta == [i \in 1..n |-> IF i = 1 THEN NaN ELSE F(d.close[i] - d.close[i - 1])]
        gain == [i \in 1..n |-> IF Gt(delta[i], F(0)) THEN delta[i][1] ELSE 0]
        loss == [i \in 1..n |-> IF Lt(delta[i], F(0)) THEN -delta[i][1] ELSE 0]
        avg_gain == rolling_mean(gain, 14)
        avg_loss == rolling_mean(loss, 14)
    IN  [RSI |-> [i \in 1..n |-> rsi_value(avg_gain[i], avg_loss[i])]] @@ d

\* Series.ewm(span, adjust=False).mean(): y[1] = x[1],
\* y[i] = (1 - a) * y[i-1] + a * x[i] with a = 2 / (span + 1)
RECURSIVE EwmFrom(_, _, _)
EwmFrom(xs, span, acc) ==
    LET i == Len(acc) + 1
    IN  IF i > Len(xs) THEN acc
        ELSE IF i = 1 THEN EwmFrom(xs, span, <<xs[1]>>)
        ELSE EwmFrom(xs, span,
                     Append(acc, acc[i - 1] + Quot(2 * (xs[i] - acc[i - 1]), span + 1)))

ewm_mean(xs, span) == EwmFrom(xs, span, <<>>)

\* a column of present floats
Present(xs) == [i \in 1..Len(xs) |-> F(xs[i])]

(* ETFAnalyzer.calculate_macd, fast 12, slow 26, signal 9 *)
calculate_macd(d) ==
    LET ema_fast == ewm_mean(d.close, 12)
        ema_slow == ewm_mean(d.close, 26)
        macd == [i \in 1..Rows(d) |-> ema_fast[i] - ema_slow[i]]
        sig == ewm_mean(macd, 9)
    IN  [MACD |-> Present(macd), Signal |-> Present(sig),
         Histogram |-> Present([i \in 1..Rows(d) |-> macd[i] - sig[i]])] @@ d

\* a + k * b of floats
FAddMul(a, k, b) == IF IsNaN(a) \/ IsNaN(b) THEN NaN ELSE F(a[1] + k * b[1])

(* ETFAnalyzer.calculate_bollinger_bands, window 20, num_std 2.0 *)
calculate_bollinger_bands(d) ==
    LET middle == rolling_mean(d.close, 20)
        sd == rolling_std(d.close, 20)
    IN  [BB_Middle |-> middle,
         BB_Upper |-> [i \in 1..Rows(d) |-> FAddMul(middle[i], 2, sd[i])],
         BB_Lower |-> [i \in 1..Rows(d) |-> FAddMul(middle[i], -2, sd[i])]] @@ d

-----------------------------------------------------------------------------
(* The price tables of the model.  A bar is one trading session; prices are *)
(* multiples of 0.001.  The data source delivers a run of equal bars        *)
(* followed by at most MaxTail further bars, at most MaxLen bars in all.    *)

MaxLen == 21

MaxTail == 1

FlatBar == [close |-> Micro, high |-> Micro, low |-> Micro, volume |-> 0]

UpBar ==
    [close |-> Micro + Micro \div 10, high |-> Micro + Micro \div 5,
     low |-> Micro, volume |-> 5]

DownBar ==
    [close |-> Micro - Micro \div 10, high |-> Micro,
     low |-> Micro - Micro \div 5, volume |-> 5]

Bars == {FlatBar, UpBar, DownBar}

RawColumns == {"close", "high", "low", "volume"}

NewTable(b) ==
    [close |-> <<b.close>>, high |-> <<b.high>>, low |-> <<b.low>>,
     volume |-> <<b.volume>>]

AddBar(d, b) ==
    [close |-> Append(d.close, b.close), high |-> Append(d.high, b.high),
     low |-> Append(d.low, b.low), volume |-> Append(d.volume, b.volume)]

BarAt(d, i) ==
    [close |-> d.close[i], high |-> d.high[i], low |-> d.low[i],
     volume |-> d.volume[i]]

\* the number of bars from the first one that differs from bar 1 to the end
TailLen(d) ==
    LET differ == {i \in 1..Rows(d) : BarAt(d, i) # BarAt(d, 1)}
    IN  IF differ = {} THEN 0
        ELSE Rows(d) + 1 - (CHOOSE i \in differ : \A j \in differ : i <= j)

\* the premium rates handed to analyze, in percent; None: no rate given
PremiumRates == {None} \cup {F(k * Micro) : k \in {-4, -2, 0, 2, 4}}

-----------------------------------------------------------------------------
(* State machine, one analysis of one ETF as the callers run it             *)
(* (batch_reporter.py 108-135, main.py 305-327): the data source builds the *)
(* table, the caller adds indicator columns with ETFAnalyzer, then calls    *)
(* TradingAdvisor.analyze once.                                             *)

(* The components around the signal engine: one variable each. *)

\* no wrapped function has been called
NoWrapper == [pc |-> "none"]

\* no data service has been constructed
NoService == [kind |-> "none"]

\* no BatchReportGenerator has been constructed
NoReporter == [now |-> -1]

\* no ReportJob has been constructed
NoJob == [pc |-> "none"]

\* no ReportScheduler has been constructed
NoScheduler == [day |-> -1]

\* no MonitorDaemon command has been given
NoDaemon == [pidfile |-> -1]

infra_vars == <<wrapper, service, reporter, job, scheduler, daemon>>

\* none of these components has been used
NoInfra ==
    /\ wrapper = NoWrapper
    /\ service = NoService
    /\ reporter = NoReporter
    /\ job = NoJob
    /\ scheduler = NoScheduler
    /\ daemon = NoDaemon

core_vars == <<df, premium_rate, score, signal, strategy, call, result>>

\* everything but wrapper
but_wrapper == <<core_vars, service, reporter, job, scheduler, daemon>>

\* only wrapper is in use
Only_wrapper ==
    /\ df = NewTable(FlatBar)
    /\ premium_rate = None
    /\ score = NaN
    /\ signal = NoSignal
    /\ strategy = BALANCED_STRATEGY
    /\ call = NoCall
    /\ result = NoResult
    /\ service = NoService
    /\ reporter = NoReporter
    /\ job = NoJob
    /\ scheduler = NoScheduler
    /\ daemon = NoDaemon

\* everything but service
but_service == <<core_vars, wrapper, reporter, job, scheduler, daemon>>

\* only service is in use
Only_service ==
    /\ df = NewTable(FlatBar)
    /\ premium_rate = None
    /\ score = NaN
    /\ signal = NoSignal
    /\ strategy = BALANCED_STRATEGY
    /\ call = NoCall
    /\ result = NoResult
    /\ wrapper = NoWrapper
    /\ reporter = NoReporter
    /\ job = NoJob
    /\ scheduler = NoScheduler
    /\ daemon = NoDaemon

\* everything but reporter
but_reporter == <<core_vars, wrapper, service, job, scheduler, daemon>>

\* only reporter is in use
Only_reporter ==
    /\ df = NewTable(FlatBar)
    /\ premium_rate = None
    /\ score = NaN
    /\ signal = NoSignal
    /\ strategy = BALANCED_STRATEGY
    /\ call = NoCall
    /\ result = NoResult
    /\ wrapper = NoWrapper
    /\ service = NoService
    /\ job = NoJob
    /\ scheduler = NoScheduler
    /\ daemon = NoDaemon

\* everything but job
but_job == <<core_vars, wrapper, service, reporter, scheduler, daemon>>

\* only job is in use
Only_job ==
    /\ df = NewTable(FlatBar)
    /\ premium_rate = None
    /\ score = NaN
    /\ signal = NoSignal
    /\ strategy = BALANCED_STRATEGY
    /\ call = NoCall
    /\ result = NoResult
    /\ wrapper = NoWrapper
    /\ service = NoService
    /\ reporter = NoReporter
    /\ scheduler = NoScheduler
    /\ daemon = NoDaemon

\* everything but scheduler
but_scheduler == <<core_vars, wrapper, service, reporter, job, daemon>>

\* only scheduler is in use
Only_scheduler ==
    /\ df = NewTable(FlatBar)
    /\ premium_rate = None
    /\ score = NaN
    /\ signal = NoSignal
    /\ strategy = BALANCED_STRATEGY
    /\ call = NoCall
    /\ result = NoResult
    /\ wrapper = NoWrapper
    /\ service = NoService
    /\ reporter = NoReporter
    /\ job = NoJob
    /\ daemon = NoDaemon

\* everything but daemon
but_daemon == <<core_vars, wrapper, service, reporter, job, scheduler>>

\* only daemon is in use
Only_daemon ==
    /\ df = NewTable(FlatBar)
    /\ premium_rate = None
    /\ score = NaN
    /\ signal = NoSignal
    /\ strategy = BALANCED_STRATEGY
    /\ call = NoCall
    /\ result = NoResult
    /\ wrapper = NoWrapper
    /\ service = NoService
    /\ reporter = NoReporter
    /\ job = NoJob
    /\ scheduler = NoScheduler

\* scorer.py and explainer.py have not been called
NoScorerCall ==
    /\ strategy = BALANCED_STRATEGY
    /\ call = NoCall
    /\ result = NoResult

Init ==
    /\ \E b \in Bars : df = NewTable(b)
    /\ premium_rate = None
    /\ score = NaN
    /\ signal = NoSignal
    /\ NoScorerCall
    /\ NoInfra

\* the data source delivers one more bar of history
AppendBar ==
    \E b \in Bars :
        /\ signal = NoSignal
        /\ DOMAIN df = RawColumns
        /\ Rows(df) < MaxLen
        /\ TailLen(df) < MaxTail \/ (TailLen(df) = 0 /\ b = BarAt(df, 1))
        /\ df' = AddBar(df, b)
        /\ UNCHANGED <<premium_rate, score, signal, strategy, call, result, infra_vars>>

CalculateMovingAverages ==
    /\ signal = NoSignal
    /\ ~Has(df, "MA5")
    /\ df' = calculate_moving_averages(df)
    /\ UNCHANGED <<premium_rate, score, signal, strategy, call, result, infra_vars>>

CalculateRsi ==
    /\ signal = NoSignal
    /\ ~Has(df, "RSI")
    /\ df' = calculate_rsi(df)
    /\ UNCHANGED <<premium_rate, score, signal, strategy, call, result, infra_vars>>

CalculateMacd ==
    /\ signal = NoSignal
    /\ ~Has(df, "MACD")
    /\ df' = calculate_macd(df)
    /\ UNCHANGED <<premium_rate, score, signal, strategy, call, result, infra_vars>>

CalculateBollingerBands ==
    /\ signal = NoSignal
    /\ ~Has(df, "BB_Upper")
    /\ df' = calculate_bollinger_bands(df)
    /\ UNCHANGED <<premium_rate, score, signal, strategy, call, result, infra_vars>>

\* advisor.analyze(df, premium_rate)
Analyze ==
    \E p \in PremiumRates, lstsq_fails \in polyfit_raises(df.close) :
        LET r == analyze(df, p, lstsq_fails)
        IN  /\ signal = NoSignal
            /\ premium_rate' = p
            /\ score' = r.final_score
            /\ signal' = r.returned
            /\ UNCHANGED <<df, strategy, call, result, infra_vars>>

Next ==
    \/ AppendBar
    \/ CalculateMovingAverages
    \/ CalculateRsi
    \/ CalculateMacd
    \/ CalculateBollingerBands
    \/ Analyze

Spec == Init /\ [][Next]_vars

-----------------------------------------------------------------------------
(* TradingAdvisor.analyze on tables whose indicator columns the caller      *)
(* supplies: the last two values of every column are drawn from small sets  *)
(* that reach every branch of the seven analyzers.                          *)

RECURSIVE Repeat(_, _)
Repeat(b, n) == IF n = 1 THEN NewTable(b) ELSE AddBar(Repeat(b, n - 1), b)

\* bars that move the close by 2 %
MildUpBar ==
    [close |-> Micro + Micro \div 50, high |-> Micro + Micro \div 50,
     low |-> Micro, volume |-> 1]

MildDownBar ==
    [close |-> Micro - Micro \div 50, high |-> Micro,
     low |-> Micro - Micro \div 50, volume |-> 1]

\* one bar; flat; a mild rise and a mild fall; a strong rise and a strong fall
\* on rising volume; a rise on shrinking volume
AdvisorSeries ==
    {NewTable(FlatBar), Repeat(FlatBar, 2), AddBar(NewTable(FlatBar), MildUpBar),
     AddBar(NewTable(FlatBar), MildDownBar), AddBar(Repeat(FlatBar, 19), UpBar),
     AddBar(Repeat(FlatBar, 19), DownBar),
     AddBar(AddBar(AddBar(AddBar(AddBar(Repeat(DownBar, 2), FlatBar), FlatBar),
                          FlatBar), FlatBar), MildUpBar)}

\* a column of n values of which only the last two are set
Col(n, prev, last) ==
    [i \in 1..n |-> IF i = n THEN last ELSE IF i = n - 1 THEN prev ELSE NaN]

Lo == F(Micro)

Hi == F(Micro + Micro \div 10)

\* <<MA5[-2], MA20[-2], MA5[-1], MA20[-1]>>
MAChoices ==
    {<<Lo, Lo, Hi, Lo>>, <<Lo, Lo, Lo, Hi>>, <<Hi, Lo, Hi, Lo>>, <<Lo, Hi, Lo, Hi>>,
     <<Lo, Lo, Lo, Lo>>, <<NaN, NaN, NaN, NaN>>}

\* RSI[-1], in percent
RSIChoices == {NaN} \cup {F(k * Micro) : k \in {0, 10, 25, 35, 50, 65, 75, 90}}

\* <<MACD[-2], Signal[-2], MACD[-1], Signal[-1], Histogram[-1]>>
MACDChoices ==
    {<<F(0), F(0), F(1000), F(0), F(1000)>>, <<F(0), F(0), F(-1000), F(0), F(-1000)>>,
     <<F(1000), F(0), F(2000), F(1000), F(1000)>>,
     <<F(-1000), F(0), F(-2000), F(-1000), F(-1000)>>,
     <<F(0), F(0), F(0), F(0), F(0)>>, <<NaN, NaN, NaN, NaN, NaN>>}

\* <<BB_Upper[-1], BB_Middle[-1], BB_Lower[-1]>> as offsets from the last close
BBChoices ==
    {<<F(2000), F(1000), F(0)>>, <<F(0), F(-1000), F(-2000)>>,
     <<F(2000), F(1000), F(-1000)>>, <<F(1000), F(-1000), F(-2000)>>,
     <<F(1000), F(0), F(-1000)>>, <<NaN, NaN, NaN>>}

AdvisorTable(raw, ma, rsi, macd, bb) ==
    LET n == Rows(raw)
        price == F(ILast(raw.close))
    IN  [MA5 |-> Col(n, ma[1], ma[3]), MA20 |-> Col(n, ma[2], ma[4]),
         RSI |-> Col(n, NaN, rsi),
         MACD |-> Col(n, macd[1], macd[3]), Signal |-> Col(n, macd[2], macd[4]),
         Histogram |-> Col(n, NaN, macd[5]),
         BB_Upper |-> Col(n, NaN, FAddMul(price, 1, bb[1])),
         BB_Middle |-> Col(n, NaN, FAddMul(price, 1, bb[2])),
         BB_Lower |-> Col(n, NaN, FAddMul(price, 1, bb[3]))] @@ raw

InitAdvisor ==
    /\ \E raw \in AdvisorSeries, ma \in MAChoices, rsi \in RSIChoices,
          macd \in MACDChoices, bb \in BBChoices :
            df = AdvisorTable(raw, ma, rsi, macd, bb)
    /\ premium_rate = None
    /\ score = NaN
    /\ signal = NoSignal
    /\ NoScorerCall
    /\ NoInfra

SpecAdvisor == InitAdvisor /\ [][Analyze]_vars

-----------------------------------------------------------------------------
(* TradingAdvisor._analyze_rsi on every RSI value of a grid of half         *)
(* percents from 0 to 100, and on a missing one                             *)

MaxRsiSteps == 200

RsiInputs == {NaN} \cup {F(k * (Micro \div 2)) : k \in 0..MaxRsiSteps}

InitRsi ==
    /\ \E rsi \in RsiInputs :
          df = [RSI |-> Col(2, NaN, rsi)] @@ Repeat(FlatBar, 2)
    /\ premium_rate = None
    /\ score = NaN
    /\ signal = NoSignal
    /\ NoScorerCall
    /\ NoInfra

SpecRsi == InitRsi /\ [][Analyze]_vars

-----------------------------------------------------------------------------
(* TradingAdvisor._get_signal_type on a grid of scores: the multiples of    *)
(* 0.005 up to MaxScoreSteps steps either side of 0 and their neighbours at *)
(* 10^-6                                                                    *)

MaxScoreSteps == 200

ScoreInputs ==
    {k * (Micro \div 200) + e : k \in (-MaxScoreSteps)..MaxScoreSteps, e \in {-1, 0, 1}}

InitScore ==
    /\ df = NewTable(FlatBar)
    /\ premium_rate = None
    /\ \E s \in ScoreInputs : score = F(s)
    /\ signal = NoSignal
    /\ NoScorerCall
    /\ NoInfra

GetSignalType ==
    LET typed == get_signal_type(score[1])
    IN  /\ signal = NoSignal
        /\ signal' = [kind |-> "signal_type", signal_type |-> typed[1],
                      confidence |-> typed[2]]
        /\ UNCHANGED <<df, premium_rate, score, strategy, call, result, infra_vars>>

SpecScore == InitScore /\ [][GetSignalType]_vars

-----------------------------------------------------------------------------
(* Claims *)

Returned == signal.kind = "signal"

\* C1: _get_signal_type maps every score s to exactly one category with
\* inclusive boundaries: s >= 0.6 STRONG_BUY, 0.2 <= s < 0.6 BUY, s <= -0.6
\* STRONG_SELL, -0.6 < s <= -0.2 SELL, and HOLD strictly between -0.2 and 0.2.
C1_SignalTypeBoundaries ==
    signal.kind = "signal_type" =>
        LET s == score[1]
            t == signal.signal_type
        IN  /\ t \in SignalType
            /\ (t = STRONG_BUY) <=> (s >= Tenths(6))
            /\ (t = BUY) <=> (Tenths(2) <= s /\ s < Tenths(6))
            /\ (t = STRONG_SELL) <=> (s <= -Tenths(6))
            /\ (t = SELL) <=> (-Tenths(6) < s /\ s <= -Tenths(2))
            /\ (t = HOLD) <=> (-Tenths(2) < s /\ s < Tenths(2))

\* a score of exactly 0.6 was classified, as STRONG_BUY
C1_Witness ==
    /\ signal.kind = "signal_type"
    /\ score = F(Tenths(6))
    /\ signal.signal_type = STRONG_BUY

\* C2: the confidence is min(|s|*100, 95) for STRONG_BUY and STRONG_SELL,
\* min(|s|*100, 80) for BUY and SELL, exactly 50 for HOLD, and so within
\* [0, 100].
C2_Confidence ==
    signal.kind = "signal_type" =>
        LET s == score[1]
            t == signal.signal_type
            c == signal.confidence
        IN  /\ t \in {STRONG_BUY, STRONG_SELL} => c = Min(Abs(s) * 100, 95 * Micro)
            /\ t \in {BUY, SELL} => c = Min(Abs(s) * 100, 80 * Micro)
            /\ t = HOLD => c = 50 * Micro
            /\ 0 <= c /\ c <= 100 * Micro

\* a score above 0.95 was classified and its confidence capped at 95
C2_Witness ==
    /\ signal.kind = "signal_type"
    /\ score[1] > 95 * (Micro \div 100)
    /\ signal.signal_type = STRONG_BUY
    /\ signal.confidence = 95 * Micro

\* the RSI sub-signal the seven bands of the specification give
ClaimedRsiSignal(r) ==
    IF IsNaN(r) THEN <<NEUTRAL, 0>>
    ELSE IF r[1] < 20 * Micro THEN <<BULLISH, Tenths(10)>>
    ELSE IF r[1] < 30 * Micro THEN <<BULLISH, Tenths(8)>>
    ELSE IF r[1] < 40 * Micro THEN <<BULLISH, Tenths(3)>>
    ELSE IF r[1] <= 60 * Micro THEN <<NEUTRAL, 0>>
    ELSE IF r[1] <= 70 * Micro THEN <<BEARISH, -Tenths(3)>>
    ELSE IF r[1] <= 80 * Micro THEN <<BEARISH, -Tenths(8)>>
    ELSE <<BEARISH, -Tenths(10)>>

\* C3: the RSI sub-signal follows the seven bands: r < 20 BULLISH 1.0,
\* 20 <= r < 30 BULLISH 0.8, 30 <= r < 40 BULLISH 0.3, 40 <= r <= 60 NEUTRAL 0,
\* 60 < r <= 70 BEARISH -0.3, 70 < r <= 80 BEARISH -0.8, r > 80 BEARISH -1.0,
\* and an undefined RSI NEUTRAL 0.
C3_RsiBands ==
    (Returned /\ Has(df, "RSI")) =>
        /\ analyze_rsi(df) = ClaimedRsiSignal(ILast(df.RSI))
        /\ signal.indicators.rsi = ClaimedRsiSignal(ILast(df.RSI))[1]

\* sum of strength * weight over the sub-signals used, with the weights of the
\* specification
ClaimedWeightedSum(sub, premium) ==
    sub.ma[2] * 20 + sub.rsi[2] * 15 + sub.macd[2] * 20 + sub.bollinger[2] * 15
    + sub.trend[2] * 15 + sub.volume[2] * 10
    + (IF premium = None THEN 0 ELSE sub.premium[2] * 5)

\* C4: final_score is the sum of strength * weight divided by the sum of the
\* weights used (100 with a premium rate, 95 without), and lies in [-1, +1]
\* for every combination of strengths the analyzers return.
C4_FinalScore ==
    score # NaN =>
        LET sub == sub_signals(df, premium_rate)
        IN  /\ \A k \in DOMAIN sub : -Micro <= sub[k][2] /\ sub[k][2] <= Micro
            /\ score[1] = Quot(ClaimedWeightedSum(sub, premium_rate),
                               IF premium_rate = None THEN 95 ELSE 100)
            /\ -Micro <= score[1] /\ score[1] <= Micro

\* analyze ran without a premium rate on sub-signals that are bullish
\* throughout: (20 + 12 + 20 + 12 + 12 + 7) / 95
C4_Witness ==
    /\ Returned
    /\ premium_rate = None
    /\ score = F(Quot(83 * Micro, 95))

\* C5: price_target and stop_loss are both None when the signal is HOLD or the
\* series has fewer than 14 bars; otherwise both are set, to price + 2*ATR and
\* price - ATR for BUY and STRONG_BUY, and to price - 2*ATR and price + ATR for
\* SELL and STRONG_SELL, each rounded to three decimals, where price is the
\* last close and ATR the average true range the advisor computes.
C5_PriceLevels ==
    Returned =>
        LET price == ILast(df.close)
            atr == average_true_range(df)
            t == signal.signal_type
        IN  IF t = HOLD \/ Rows(df) < 14
              THEN signal.price_target = None /\ signal.stop_loss = None
            ELSE /\ signal.price_target # None /\ signal.stop_loss # None
                 /\ t \in {BUY, STRONG_BUY} =>
                      /\ signal.price_target = F(Round3(price + 2 * atr[1]))
                      /\ signal.stop_loss = F(Round3(price - atr[1]))
                 /\ t \in {SELL, STRONG_SELL} =>
                      /\ signal.price_target = F(Round3(price - 2 * atr[1]))
                      /\ signal.stop_loss = F(Round3(price + atr[1]))

\* a BUY on a series of at least 14 bars, with a target above the last close
C5_Witness ==
    /\ Returned
    /\ signal.signal_type \in {BUY, STRONG_BUY}
    /\ Rows(df) >= 14
    /\ signal.price_target # None
    /\ signal.price_target[1] > ILast(df.close)

\* C5 as the specification words it: the price levels are exactly
\* price +/- 2*ATR and price -/+ ATR, with no rounding.
C5_ExactLevels ==
    Returned =>
        LET price == ILast(df.close)
            atr == average_true_range(df)
            t == signal.signal_type
        IN  IF t = HOLD \/ Rows(df) < 14
              THEN signal.price_target = None /\ signal.stop_loss = None
            ELSE /\ signal.price_target # None /\ signal.stop_loss # None
                 /\ t \in {BUY, STRONG_BUY} =>
                      /\ signal.price_target = F(price + 2 * atr[1])
                      /\ signal.stop_loss = F(price - atr[1])
                 /\ t \in {SELL, STRONG_SELL} =>
                      /\ signal.price_target = F(price - 2 * atr[1])
                      /\ signal.stop_loss = F(price + atr[1])

\* true range of bar i of the series, against the close of bar i - 1
ClaimedTrueRange(d, i) ==
    Max(d.high[i] - d.low[i],
        Max(Abs(d.high[i] - d.close[i - 1]), Abs(d.low[i] - d.close[i - 1])))

\* mean of the 14 true ranges of the trailing 14 bars
ClaimedAtr(d) ==
    LET n == Rows(d)
    IN  Quot(SumSeq([j \in 1..14 |-> ClaimedTrueRange(d, n - 14 + j)]), 14)

\* C6: the ATR behind the price levels is the mean of 14 true ranges, one for
\* each of the trailing 14 bars, each taken against the close of the bar just
\* before it in the series.
C6_AtrOver14Bars ==
    (Returned /\ Rows(df) >= 15 /\ signal.price_target # None) =>
        average_true_range(df) = F(ClaimedAtr(df))

\* the series is shorter than the window and column c was computed
ShortFor(c, window) == Has(df, c) /\ Rows(df) < window

\* C7: on a series shorter than an indicator's minimum window (MA20 and
\* Bollinger 20, RSI 14, MACD 26) computing the indicators and analyzing does
\* not raise, the indicator's last value is undefined, and its sub-signal is
\* NEUTRAL with strength 0.
C7_ShortSeriesNeutral ==
    signal # NoSignal =>
        /\ Returned
        /\ ShortFor("MA20", 20) =>
             IsNaN(ILast(df.MA20)) /\ analyze_ma_cross(df) = <<NEUTRAL, 0>>
        /\ ShortFor("BB_Middle", 20) =>
             /\ IsNaN(ILast(df.BB_Middle))
             /\ analyze_bollinger(df) = <<NEUTRAL, 0>>
        /\ ShortFor("RSI", 14) =>
             IsNaN(ILast(df.RSI)) /\ analyze_rsi(df) = <<NEUTRAL, 0>>
        /\ ShortFor("MACD", 26) =>
             IsNaN(ILast(df.MACD)) /\ analyze_macd(df) = <<NEUTRAL, 0>>

\* every close of the series is the same price
ConstantPrice(d) == \A i \in 1..Rows(d) : d.close[i] = d.close[1]

\* C8: on a constant-price series of any length, 20 bars and more included,
\* the MA-cross and the Bollinger sub-signals computed on the series with its
\* indicators are both NEUTRAL with strength 0.
C8_ConstantSeriesNeutral ==
    (Returned /\ ConstantPrice(df)) =>
        /\ Has(df, "MA5") =>
             analyze_ma_cross(df) = <<NEUTRAL, 0>> /\ signal.indicators.ma = NEUTRAL
        /\ Has(df, "BB_Upper") =>
             /\ analyze_bollinger(df) = <<NEUTRAL, 0>>
             /\ signal.indicators.bollinger = NEUTRAL

\* a flat series with zero volume
FlatZeroVolume(d) ==
    \A i \in 1..Rows(d) :
        /\ d.close[i] = d.close[1] /\ d.high[i] = d.close[1] /\ d.low[i] = d.close[1]
        /\ d.volume[i] = 0

\* C9: on a flat series with zero volume, of any length from 1, with or
\* without indicators computed and without a premium rate, analyze returns
\* HOLD with confidence exactly 50 and no price target or stop loss.
C9_FlatSeriesHold ==
    (signal # NoSignal /\ FlatZeroVolume(df) /\ premium_rate = None) =>
        /\ Returned
        /\ signal.signal_type = HOLD
        /\ signal.confidence = 50 * Micro
        /\ signal.price_target = None
        /\ signal.stop_loss = None

\* the indicator a reason string speaks of
ReasonIndicator(r) ==
    IF r \in {"ma_golden_cross", "ma_bullish_alignment", "ma_bearish_alignment"}
      THEN "ma"
    ELSE IF r \in {"rsi_oversold", "rsi_overbought"} THEN "rsi"
    ELSE IF r \in {"macd_golden_cross", "macd_bullish", "macd_bearish"} THEN "macd"
    ELSE IF r \in {"trend_strong_rise", "trend_rising", "trend_falling"}
      THEN "trend"
    ELSE IF r \in {"discount", "premium"} THEN "premium"
    ELSE "none"

\* the reasoned indicators whose sub-signal is not neutral, in order
NonNeutral(signals) ==
    LET Fired(k) == k \in DOMAIN signals /\ signals[k] # NEUTRAL
    IN  SelectSeq(<<"ma", "rsi", "macd", "trend", "premium">>, Fired)

\* C10: the reasons hold exactly one string for each of MA, RSI, MACD, trend
\* and premium whose sub-signal is not neutral, in that order, the single
\* neutral fallback string exactly when none of them is, and are never empty.
C10_ReasonPerIndicator ==
    Returned =>
        LET fired == NonNeutral(signal.indicators)
            reasons == signal.reasons
        IN  /\ reasons # <<>>
            /\ (reasons = <<NeutralReason>>) <=> (fired = <<>>)
            /\ fired # <<>> =>
                 [i \in 1..Len(reasons) |-> ReasonIndicator(reasons[i])] = fired

-----------------------------------------------------------------------------
(* TradingAdvisor._assess_risk through analyze, on series whose closes stay *)
(* at 1.000 up to a last bar that moves by a multiple of 1/350.  With 8     *)
(* bars the annualized volatility is about 1.7 % per step, and never one of *)
(* the thresholds 20 and 30 themselves, which floats do not hit either.     *)

MaxRiskSteps == 30

RiskLengths == {1, 2, 3, 8}

\* a bar closing k steps of 1/350 away from 1.000
RiskBar(k) ==
    LET c == Micro + k * (Micro \div 350)
    IN  [close |-> c, high |-> Max(c, Micro), low |-> Min(c, Micro), volume |-> 0]

RiskSeries ==
    {NewTable(RiskBar(k)) : k \in -MaxRiskSteps..MaxRiskSteps}
    \cup {AddBar(Repeat(FlatBar, n - 1), RiskBar(k)) :
            n \in RiskLengths \ {1}, k \in -MaxRiskSteps..MaxRiskSteps}

InitRisk ==
    /\ df \in RiskSeries
    /\ premium_rate = None
    /\ score = NaN
    /\ signal = NoSignal
    /\ NoScorerCall
    /\ NoInfra

SpecRisk == InitRisk /\ [][Analyze]_vars

-----------------------------------------------------------------------------
(* Claims on the risk level *)

\* the risk level the thresholds of the specification give to a volatility
ClaimedRiskLevel(volatility) ==
    IF Gt(volatility, F(30 * Micro)) THEN RISK_HIGH
    ELSE IF Gt(volatility, F(20 * Micro)) THEN RISK_MEDIUM
    ELSE RISK_LOW

\* the annualized volatility, in percent, of the closes of a table; NaN when
\* it cannot be computed
Volatility(d) ==
    IF Rows(d) < 2 THEN NaN ELSE annual_volatility(pct_change(d.close))

-----------------------------------------------------------------------------
(* scorer.py: ETFScorer.  Percentages, ratios and scores are floats, kept   *)
(* here in ten-thousandths; NaN as above.                                   *)

Pts == 10^4

\* STRATEGY_WEIGHTS, in hundredths
STRATEGY_WEIGHTS ==
    [conservative |->
        [return |-> 20, risk |-> 35, liquidity |-> 25, fee |-> 15, technical |-> 5],
     balanced |->
        [return |-> 30, risk |-> 25, liquidity |-> 20, fee |-> 15, technical |-> 10],
     aggressive |->
        [return |-> 45, risk |-> 10, liquidity |-> 15, fee |-> 10, technical |-> 20]]

\* a + b on floats
FAdd(a, b) == IF IsNaN(a) \/ IsNaN(b) THEN NaN ELSE F(a[1] + b[1])

\* a * k / n on floats, k and n whole numbers
FScale(a, k, n) == IF IsNaN(a) THEN NaN ELSE F(Quot(a[1] * k, n))

\* the return score without its annual-return part
calculate_return_score_sharpe_only(annual_return, sharpe_ratio) ==
    IF IsNaN(annual_return) THEN NaN
    ELSE IF Ge(sharpe_ratio, F(2 * Pts)) THEN F(80 * Pts)
    ELSE IF Le(sharpe_ratio, F(0)) THEN F(0)
    ELSE FScale(sharpe_ratio, 80, 2)

(* ETFScorer._calculate_return_score *)
calculate_return_score(annual_return, sharpe_ratio) ==
    LET return_part ==
            IF Ge(annual_return, F(30 * Pts)) THEN F(20 * Pts)
            ELSE IF Le(annual_return, F(-10 * Pts)) THEN F(0)
            ELSE FScale(FAdd(annual_return, F(10 * Pts)), 20, 40)
        sharpe_part ==
            IF Ge(sharpe_ratio, F(2 * Pts)) THEN F(80 * Pts)
            ELSE IF Le(sharpe_ratio, F(0)) THEN F(0)
            ELSE FScale(sharpe_ratio, 80, 2)
    IN  FAdd(return_part, sharpe_part)

\* vol_part, lines 201-206
vol_part(volatility) ==
    IF Le(volatility, F(10 * Pts)) THEN F(60 * Pts)
    ELSE IF Ge(volatility, F(50 * Pts)) THEN F(0)
    ELSE FScale(FSub(F(50 * Pts), volatility), 60, 40)

\* drawdown_part, lines 210-215: max_drawdown is compared as passed
drawdown_part(max_drawdown) ==
    IF Le(max_drawdown, F(5 * Pts)) THEN F(40 * Pts)
    ELSE IF Ge(max_drawdown, F(40 * Pts)) THEN F(0)
    ELSE FScale(FSub(F(40 * Pts), max_drawdown), 40, 35)

(* ETFScorer._calculate_risk_score *)
calculate_risk_score(volatility, max_drawdown) ==
    FAdd(vol_part(volatility), drawdown_part(max_drawdown))

\* the fee score as the line alone, without the two saturation branches
calculate_fee_score_unsaturated(fee_rate) ==
    FScale(FSub(F(60 * (Pts \div 100)), fee_rate), 2000, 9)

(* ETFScorer._calculate_fee_score: (0.6 - fee_rate) / 0.45 * 100, which is  *)
(* (0.6 - fee_rate) * 2000 / 9                                              *)
calculate_fee_score(fee_rate) ==
    IF Le(fee_rate, F(15 * (Pts \div 100))) THEN F(100 * Pts)
    ELSE IF Ge(fee_rate, F(60 * (Pts \div 100))) THEN F(0)
    ELSE FScale(FSub(F(60 * (Pts \div 100)), fee_rate), 2000, 9)

\* df is None
NoTable == [none |-> TRUE]

\* the number of rows of a table, read off any of its columns
AnyRows(d) == Len(d[CHOOSE c \in DOMAIN d : TRUE])

\* last_row[c]
LastOf(d, c) == d[c][AnyRows(d)]

\* points of the MA position, lines 269-277
ma_points(current_price, ma5, ma20) ==
    IF Gt(current_price, ma5) /\ Gt(ma5, ma20) THEN 30
    ELSE IF Gt(current_price, ma5) THEN 20
    ELSE IF Gt(current_price, ma20) THEN 10
    ELSE 0

\* points of the RSI band, lines 284-295
rsi_points(rsi) ==
    IF Le(F(40 * Micro), rsi) /\ Le(rsi, F(60 * Micro)) THEN 30
    ELSE IF \/ Le(F(30 * Micro), rsi) /\ Lt(rsi, F(40 * Micro))
            \/ Lt(F(60 * Micro), rsi) /\ Le(rsi, F(70 * Micro)) THEN 20
    ELSE IF Lt(rsi, F(30 * Micro)) THEN 15
    ELSE IF Gt(rsi, F(70 * Micro)) THEN 5
    ELSE 0

\* points of the MACD state, lines 304-317
macd_points(macd, signal_) ==
    LET macd_diff == FSub(macd, signal_)
    IN  IF Gt(macd_diff, F(0)) /\ Gt(macd, F(0)) THEN 40
        ELSE IF Gt(macd_diff, F(0)) THEN 30
        ELSE IF Gt(macd, F(0)) THEN 20
        ELSE 10

\* the technical score with the points divided by three whatever the number
\* of indicators present
calculate_technical_score_over_three(d) ==
    IF d = NoTable \/ AnyRows(d) = 0 THEN F(50 * Pts)
    ELSE IF ~Has(d, "close") THEN F(50 * Pts)
    ELSE
      LET current_price == F(LastOf(d, "close"))
          ma == Has(d, "MA5") /\ Has(d, "MA20")
                /\ ~IsNaN(LastOf(d, "MA5")) /\ ~IsNaN(LastOf(d, "MA20"))
          rsi == Has(d, "RSI") /\ ~IsNaN(LastOf(d, "RSI"))
          macd == Has(d, "MACD") /\ Has(d, "Signal")
                  /\ ~IsNaN(LastOf(d, "MACD")) /\ ~IsNaN(LastOf(d, "Signal"))
          score_ == (IF ma THEN ma_points(current_price, LastOf(d, "MA5"),
                                          LastOf(d, "MA20")) ELSE 0)
                    + (IF rsi THEN rsi_points(LastOf(d, "RSI")) ELSE 0)
                    + (IF macd THEN macd_points(LastOf(d, "MACD"),
                                                LastOf(d, "Signal")) ELSE 0)
      IN  IF ma \/ rsi \/ macd THEN F(Quot(score_ * Pts, 3)) ELSE F(50 * Pts)

(* ETFScorer._calculate_technical_score.  A table without the close column *)
(* raises KeyError at line 261, which the except clause turns into 50.     *)
calculate_technical_score(d) ==
    IF d = NoTable \/ AnyRows(d) = 0 THEN F(50 * Pts)
    ELSE IF ~Has(d, "close") THEN F(50 * Pts)
    ELSE
      LET current_price == F(LastOf(d, "close"))
          ma == Has(d, "MA5") /\ Has(d, "MA20")
                /\ ~IsNaN(LastOf(d, "MA5")) /\ ~IsNaN(LastOf(d, "MA20"))
          rsi == Has(d, "RSI") /\ ~IsNaN(LastOf(d, "RSI"))
          macd == Has(d, "MACD") /\ Has(d, "Signal")
                  /\ ~IsNaN(LastOf(d, "MACD")) /\ ~IsNaN(LastOf(d, "Signal"))
          score_ == (IF ma THEN ma_points(current_price, LastOf(d, "MA5"),
                                          LastOf(d, "MA20")) ELSE 0)
                    + (IF rsi THEN rsi_points(LastOf(d, "RSI")) ELSE 0)
                    + (IF macd THEN macd_points(LastOf(d, "MACD"),
                                                LastOf(d, "Signal")) ELSE 0)
          indicators_count == (IF ma THEN 1 ELSE 0) + (IF rsi THEN 1 ELSE 0)
                              + (IF macd THEN 1 ELSE 0)
      IN  IF indicators_count > 0
            THEN F(Min(100 * Pts, Quot(score_ * Pts, indicators_count)))
          ELSE F(50 * Pts)

\* the weighted sum under the BALANCED weights whatever the strategy
weighted_total_balanced(w, return_score, risk_score, liquidity_score, fee_score, technical_score) ==
    IF \E x \in {return_score, risk_score, liquidity_score, fee_score,
                 technical_score} : IsNaN(x)
      THEN NaN
    ELSE F(Quot(return_score[1] * 30 + risk_score[1] * 25
                + liquidity_score[1] * 20 + fee_score[1] * 15
                + technical_score[1] * 10, 100))

\* the weighted sum of lines 132-138
weighted_total(w, return_score, risk_score, liquidity_score, fee_score, technical_score) ==
    IF \E x \in {return_score, risk_score, liquidity_score, fee_score,
                 technical_score} : IsNaN(x)
      THEN NaN
    ELSE F(Quot(return_score[1] * w.return + risk_score[1] * w.risk
                + liquidity_score[1] * w.liquidity + fee_score[1] * w.fee
                + technical_score[1] * w.technical, 100))

(* ETFScorer.calculate_score; a is the record of its arguments *)
calculate_score(strategy_, a) ==
    LET return_score == calculate_return_score(a.annual_return, a.sharpe_ratio)
        risk_score == calculate_risk_score(a.volatility, a.max_drawdown)
        liquidity_score == a.liquidity_score
        fee_score == calculate_fee_score(a.fee_rate)
        technical_score ==
            IF a.df # NoTable THEN calculate_technical_score(a.df) ELSE F(50 * Pts)
    IN  [kind |-> "ScoreBreakdown",
         total_score |-> weighted_total(STRATEGY_WEIGHTS[strategy_], return_score,
                                        risk_score, liquidity_score, fee_score,
                                        technical_score),
         return_score |-> return_score,
         risk_score |-> risk_score,
         liquidity_score |-> liquidity_score,
         fee_score |-> fee_score,
         technical_score |-> technical_score]

-----------------------------------------------------------------------------
(* Calls of ETFScorer.calculate_score.  The scorer keeps no state but the   *)
(* strategy chosen at construction, so a behaviour is one scorer, one call  *)
(* and its return.  etf_code, etf_name and scale are not read by the code.  *)

MaxGridSteps == 12

\* a whole number of percent or of points
Whole(x) == F(x * Pts)

RsiOnlyTable == [close |-> <<Micro>>, RSI |-> <<F(50 * Micro)>>]

MAColumns ==
    {<<>>, <<NaN, NaN>>, <<F(Micro - 2000), F(Micro - 4000)>>,
     <<F(Micro - 2000), F(Micro + 2000)>>, <<F(Micro + 2000), F(Micro - 2000)>>,
     <<F(Micro + 2000), F(Micro + 4000)>>, <<F(Micro), F(Micro)>>}

RSIColumns ==
    {<<>>, <<NaN>>} \cup {<<F(k * Micro)>> : k \in {0, 25, 30, 35, 40, 50, 60, 65, 70, 75, 100}}

MACDColumns ==
    {<<>>, <<NaN, NaN>>, <<F(2000), F(1000)>>, <<F(-1000), F(-2000)>>,
     <<F(1000), F(2000)>>, <<F(-2000), F(-1000)>>, <<F(0), F(0)>>}

\* the last row of a table with the given indicator values; <<>> is a
\* column the table does not have
TechnicalTable(with_close, ma, rsi, macd) ==
    LET cols == (IF with_close THEN {"close"} ELSE {})
                \cup (IF ma # <<>> THEN {"MA5", "MA20"} ELSE {})
                \cup (IF rsi # <<>> THEN {"RSI"} ELSE {})
                \cup (IF macd # <<>> THEN {"MACD", "Signal"} ELSE {})
    IN  [c \in cols |->
           IF c = "close" THEN <<Micro>>
           ELSE IF c = "MA5" THEN <<ma[1]>>
           ELSE IF c = "MA20" THEN <<ma[2]>>
           ELSE IF c = "RSI" THEN <<rsi[1]>>
           ELSE IF c = "MACD" THEN <<macd[1]>>
           ELSE <<macd[2]>>]

EmptyTable == [close |-> <<>>, MA5 |-> <<>>, MA20 |-> <<>>, RSI |-> <<>>,
               MACD |-> <<>>, Signal |-> <<>>]

TechnicalTables ==
    {NoTable, EmptyTable}
    \cup {TechnicalTable(TRUE, ma, rsi, macd) :
            ma \in MAColumns, rsi \in RSIColumns, macd \in MACDColumns}
    \cup {TechnicalTable(FALSE, ma, rsi, macd) :
            ma \in MAColumns \ {<<>>}, rsi \in {<<F(50 * Micro)>>},
            macd \in {<<F(2000), F(1000)>>}}

BaseArgs ==
    [annual_return |-> Whole(10), sharpe_ratio |-> F(5000),
     volatility |-> Whole(30), max_drawdown |-> Whole(45),
     liquidity_score |-> Whole(30), fee_rate |-> F(4650), df |-> RsiOnlyTable]

\* every argument varied together, over few values each
CoarseArgs ==
    [annual_return : {Whole(-20), Whole(10), Whole(30), Whole(50)},
     sharpe_ratio : {Whole(-1), F(5000), F(7500), F(25000)},
     volatility : {NaN, Whole(5), Whole(30), Whole(60)},
     max_drawdown : {NaN, Whole(-30), F(225000), Whole(30), Whole(45)},
     liquidity_score : {Whole(-10), Whole(30), Whole(50), Whole(100), Whole(150)},
     fee_rate : {F(1000), F(3750), F(4650), F(7000)},
     df : {NoTable, RsiOnlyTable}]

\* one or two arguments varied over a grid, the others fixed
ReturnGrid == {Whole(5 * k - 20) : k \in 0..MaxGridSteps}

VolatilityGrid == {Whole(5 * k) : k \in 0..MaxGridSteps}

DrawdownGrid == {Whole(5 * k - 10) : k \in 0..MaxGridSteps}

FeeGrid == {F(750 * k) : k \in 0..MaxGridSteps}

GridArgs ==
    {[BaseArgs EXCEPT !.annual_return = x, !.sharpe_ratio = s] :
        x \in ReturnGrid, s \in {Whole(0), Whole(1)}}
    \cup {[BaseArgs EXCEPT !.volatility = v, !.max_drawdown = m] :
            v \in VolatilityGrid, m \in DrawdownGrid}
    \cup {[BaseArgs EXCEPT !.fee_rate = f] : f \in FeeGrid}
    \cup {[BaseArgs EXCEPT !.df = t] : t \in TechnicalTables}

ScoreArgs == CoarseArgs \cup GridArgs

InitScorer ==
    /\ df = NewTable(FlatBar)
    /\ premium_rate = None
    /\ score = NaN
    /\ signal = NoSignal
    /\ strategy \in ScoringStrategy
    /\ call \in {[method |-> "calculate_score", args |-> a] : a \in ScoreArgs}
    /\ result = NoResult
    /\ NoInfra

CalculateScore ==
    /\ call.method = "calculate_score"
    /\ result = NoResult
    /\ result' = calculate_score(strategy, call.args)
    /\ UNCHANGED <<df, premium_rate, score, signal, strategy, call, infra_vars>>

SpecScorer == InitScorer /\ [][CalculateScore]_vars

Scored == result.kind = "ScoreBreakdown"

\* the five sub-scores of a ScoreBreakdown
SubScores(r) ==
    <<r.return_score, r.risk_score, r.liquidity_score, r.fee_score,
      r.technical_score>>

AllPresent(r) == \A i \in 1..5 : ~IsNaN(SubScores(r)[i])

AllEqual(r) == \A i \in 1..5 : SubScores(r)[i] = r.return_score

\* the weights of a strategy in the order of SubScores
WeightsOf(s) ==
    LET w == STRATEGY_WEIGHTS[s]
    IN  <<w.return, w.risk, w.liquidity, w.fee, w.technical>>

(* C12: the five weights of every strategy sum to 1.0, total_score is the   *)
(* sum of sub-score times weight under the strategy the scorer was built    *)
(* with, and five equal sub-scores v give the total v.                      *)
C12_WeightedTotal ==
    /\ \A s \in ScoringStrategy :
         WeightsOf(s)[1] + WeightsOf(s)[2] + WeightsOf(s)[3] + WeightsOf(s)[4]
           + WeightsOf(s)[5] = 100
    /\ Scored /\ AllPresent(result) =>
         LET x == SubScores(result)
             w == WeightsOf(strategy)
         IN  /\ result.total_score =
                  F(Quot(x[1][1] * w[1] + x[2][1] * w[2] + x[3][1] * w[3]
                         + x[4][1] * w[4] + x[5][1] * w[5], 100))
             /\ AllEqual(result) => result.total_score = result.return_score

C12_Witness ==
    /\ Scored
    /\ strategy = AGGRESSIVE_STRATEGY
    /\ AllEqual(result)
    /\ result.return_score = Whole(50)
    /\ result.total_score = Whole(50)

\* a float within [0, 100]
InRange(x) == Le(F(0), x) /\ Le(x, Whole(100))

(* C13: after every call of calculate_score, under every strategy and for   *)
(* every combination of arguments, total_score and each of the five         *)
(* sub-scores lie in [0, 100].                                              *)
C13_ScoresInRange ==
    Scored => /\ InRange(result.total_score)
              /\ \A i \in 1..5 : InRange(SubScores(result)[i])

\* the drawdown part as a function of the magnitude m of max_drawdown
ClaimedDrawdownPart(m) ==
    IF Le(m, Whole(5)) THEN Whole(40)
    ELSE IF Ge(m, Whole(40)) THEN Whole(0)
    ELSE FScale(FSub(Whole(40), m), 40, 35)

(* C14: the drawdown part of risk_score depends on the magnitude of         *)
(* max_drawdown only: 40 when it is at most 5, 0 when it is at least 40,    *)
(* (40 - |max_drawdown|) / 35 * 40 between; a max_drawdown of -30 scores    *)
(* the same as +30.                                                         *)
C14_DrawdownByMagnitude ==
    Scored /\ ~IsNaN(call.args.volatility) /\ ~IsNaN(call.args.max_drawdown) =>
        result.risk_score =
            FAdd(vol_part(call.args.volatility),
                 ClaimedDrawdownPart(FAbs(call.args.max_drawdown)))

\* the call's arguments are all numbers
NumericCall ==
    /\ ~IsNaN(call.args.volatility)
    /\ ~IsNaN(call.args.max_drawdown)

\* the scores of the call's other arguments at annual_return x, volatility v
ReturnScoreAt(x) == calculate_return_score(x, call.args.sharpe_ratio)

RiskScoreAt(v) == calculate_risk_score(v, call.args.max_drawdown)

ClaimedFeeScore(fee_rate) ==
    IF Le(fee_rate, F(1500)) THEN Whole(100)
    ELSE IF Ge(fee_rate, F(6000)) THEN Whole(0)
    ELSE F(Quot((6000 - fee_rate[1]) * 100 * 20, 9))

(* C16: fee_score is 100 for fee_rate <= 0.15, 0 for fee_rate >= 0.6 and    *)
(* (0.6 - fee_rate) / 0.45 * 100 between, 50 at the midpoint 0.375; it is   *)
(* non-increasing in fee_rate and within [0, 100].                          *)
C16_FeeScore ==
    Scored =>
      /\ result.fee_score = ClaimedFeeScore(call.args.fee_rate)
      /\ call.args.fee_rate = F(3750) => result.fee_score = Whole(50)
      /\ \A f \in FeeGrid :
           Lt(call.args.fee_rate, f) => Ge(result.fee_score, calculate_fee_score(f))
      /\ InRange(result.fee_score)

C16_Witness ==
    /\ Scored
    /\ call.args.fee_rate = F(3750)
    /\ result.fee_score = Whole(50)
    /\ calculate_fee_score(F(1500)) = Whole(100)
    /\ calculate_fee_score(F(6000)) = Whole(0)

\* the columns of d all exist and hold a value in the last row
DefinedLast(d, cols) == \A c \in cols : Has(d, c) /\ ~IsNaN(LastOf(d, c))

\* the table has a last row with a close
Readable(d) == d # NoTable /\ AnyRows(d) > 0 /\ Has(d, "close")

(* C17: technical_score is 50 when the table is None or empty, when the     *)
(* close column is missing, or when none of MA, RSI and MACD has a value in *)
(* the last row; otherwise it is the sum of the points of the indicators    *)
(* present (MA 0, 10, 20 or 30; RSI 5, 15, 20 or 30; MACD 10, 20, 30 or     *)
(* 40) divided by the number of indicators present; 30 + 30 + 40 points on  *)
(* three indicators give 100 / 3.                                           *)
C17_TechnicalScore ==
    Scored =>
      LET d == call.args.df
          ma == Readable(d) /\ DefinedLast(d, {"MA5", "MA20"})
          rsi == Readable(d) /\ DefinedLast(d, {"RSI"})
          macd == Readable(d) /\ DefinedLast(d, {"MACD", "Signal"})
          ma_p == IF ma THEN ma_points(F(LastOf(d, "close")), LastOf(d, "MA5"),
                                       LastOf(d, "MA20")) ELSE 0
          rsi_p == IF rsi THEN rsi_points(LastOf(d, "RSI")) ELSE 0
          macd_p == IF macd THEN macd_points(LastOf(d, "MACD"),
                                             LastOf(d, "Signal")) ELSE 0
          n == Cardinality({x \in {<<1, ma>>, <<2, rsi>>, <<3, macd>>} : x[2]})
      IN  /\ ma => ma_p \in {0, 10, 20, 30}
          /\ rsi => rsi_p \in {5, 15, 20, 30}
          /\ macd => macd_p \in {10, 20, 30, 40}
          /\ result.technical_score =
               IF n = 0 THEN Whole(50)
               ELSE F(Quot((ma_p + rsi_p + macd_p) * Pts, n))
          /\ ma_p + rsi_p + macd_p = 100 => result.technical_score = F(333333)

C17_Witness ==
    /\ Scored
    /\ Readable(call.args.df)
    /\ DefinedLast(call.args.df, {"MA5", "MA20", "RSI", "MACD", "Signal"})
    /\ result.technical_score = F(333333)

-----------------------------------------------------------------------------
(* explainer.py: RecommendationExplainer.  A reason or warning string is    *)
(* kept as the dimension it speaks of and the wording chosen; the numbers   *)
(* formatted into it are left out.                                          *)

Text(dimension, wording) == [dimension |-> dimension, wording |-> wording]

\* [x] if cond else []
When(cond, x) == IF cond THEN <<x>> ELSE <<>>

\* the first n elements, seq[:n]
Head_(seq, n) == SubSeq(seq, 1, Min(n, Len(seq)))

\* the overall-score reason added whatever the number of reasons so far
overall_reason_always(reasons, total_score) ==
    IF Ge(total_score, Whole(80)) THEN <<Text("overall", "excellent")>>
    ELSE IF Ge(total_score, Whole(70)) THEN <<Text("overall", "good")>>
    ELSE <<>>

\* the overall-score reason of lines 88-92
overall_reason(reasons, total_score) ==
    IF Len(reasons) < 3
      THEN IF Ge(total_score, Whole(80)) THEN <<Text("overall", "excellent")>>
           ELSE IF Ge(total_score, Whole(70)) THEN <<Text("overall", "good")>>
           ELSE <<>>
    ELSE <<>>

(* RecommendationExplainer.generate_reasons; a is the record of arguments. *)
(* The name generate_reasons is the advisor's above.                       *)
explainer_generate_reasons(a) ==
    LET b == a.score_breakdown
        return_ ==
            IF Ge(b.return_score, Whole(70))
              THEN IF Gt(a.annual_return, Whole(20)) THEN <<Text("return", "excellent")>>
                   ELSE IF Gt(a.annual_return, Whole(10)) THEN <<Text("return", "good")>>
                   ELSE <<Text("return", "sharpe")>>
            ELSE <<>>
        risk ==
            IF Ge(b.risk_score, Whole(70))
              THEN IF Lt(a.volatility, Whole(15)) THEN <<Text("risk", "excellent")>>
                   ELSE IF Lt(a.volatility, Whole(25)) THEN <<Text("risk", "controlled")>>
                   ELSE <<Text("risk", "drawdown")>>
            ELSE <<>>
        liquidity ==
            IF Ge(b.liquidity_score, Whole(85))
              THEN IF Ge(a.scale, Whole(100)) THEN <<Text("liquidity", "huge")>>
                   ELSE IF Ge(a.scale, Whole(50)) THEN <<Text("liquidity", "excellent")>>
                   ELSE <<Text("liquidity", "good")>>
            ELSE <<>>
        fee ==
            IF Ge(b.fee_score, Whole(70))
              THEN IF Le(a.fee_rate, F(3000)) THEN <<Text("fee", "low")>>
                   ELSE IF Le(a.fee_rate, F(5000)) THEN <<Text("fee", "fair")>>
                   ELSE <<>>
            ELSE <<>>
        technical ==
            IF Ge(b.technical_score, Whole(70)) THEN <<Text("technical", "healthy")>>
            ELSE IF Ge(b.technical_score, Whole(60)) THEN <<Text("technical", "neutral")>>
            ELSE <<>>
        reasons == return_ \o risk \o liquidity \o fee \o technical
    IN  Head_(reasons \o overall_reason(reasons, b.total_score), 5)

(* RecommendationExplainer.generate_risk_warnings *)
generate_risk_warnings(a) ==
    LET b == a.score_breakdown
    IN  (IF Lt(b.risk_score, Whole(50))
           THEN When(Gt(a.volatility, Whole(30)), Text("risk", "volatility"))
                \o When(Gt(a.max_drawdown, Whole(25)), Text("risk", "drawdown"))
         ELSE <<>>)
        \o When(Lt(b.liquidity_score, Whole(60)), Text("liquidity", "small"))
        \o When(Lt(a.annual_return, F(0)), Text("return", "negative"))
        \o When(Lt(b.technical_score, Whole(40)), Text("technical", "weak"))

\* the confidence levels: "极高", "高", "中等", "偏低", "低"
VERY_HIGH == "very high"

HIGH == "high"

MEDIUM == "medium"

LOW_MEDIUM == "low-medium"

LOW == "low"

\* the tier with >= read as >
generate_confidence_level_strict(b) ==
    IF Gt(b.total_score, Whole(85)) THEN VERY_HIGH
    ELSE IF Gt(b.total_score, Whole(75)) THEN HIGH
    ELSE IF Gt(b.total_score, Whole(65)) THEN MEDIUM
    ELSE IF Gt(b.total_score, Whole(55)) THEN LOW_MEDIUM
    ELSE LOW

(* RecommendationExplainer.generate_confidence_level, first component *)
generate_confidence_level(b) ==
    IF Ge(b.total_score, Whole(85)) THEN VERY_HIGH
    ELSE IF Ge(b.total_score, Whole(75)) THEN HIGH
    ELSE IF Ge(b.total_score, Whole(65)) THEN MEDIUM
    ELSE IF Ge(b.total_score, Whole(55)) THEN LOW_MEDIUM
    ELSE LOW

-----------------------------------------------------------------------------
(* Calls of the explainer.  It keeps no state, so a behaviour is one call   *)
(* and its return.  The methods are public and take any ScoreBreakdown.     *)

MaxTierSteps == 20

ScoreBreakdown(total, return_, risk, liquidity, fee, technical) ==
    [kind |-> "ScoreBreakdown", total_score |-> total, return_score |-> return_,
     risk_score |-> risk, liquidity_score |-> liquidity, fee_score |-> fee,
     technical_score |-> technical]

\* the value x and the largest value below it
Around(x) == {F(x * Pts - 1), Whole(x)}

ReasonCalls ==
    {[method |-> "generate_reasons",
      args |-> [score_breakdown |-> ScoreBreakdown(t, r, k, l, f, c),
                annual_return |-> ar, volatility |-> v, scale |-> sc,
                fee_rate |-> fr]] :
        t \in Around(70) \cup {Whole(80)},
        r \in Around(70), k \in Around(70), l \in Around(85), f \in Around(70),
        c \in Around(60) \cup {Whole(70)},
        ar \in {Whole(5), Whole(25)}, v \in {Whole(10), Whole(30)},
        sc \in {Whole(10), Whole(100)}, fr \in {F(2000), F(4000), F(5500)}}

WarningCalls ==
    {[method |-> "generate_risk_warnings",
      args |-> [score_breakdown |->
                    ScoreBreakdown(Whole(60), Whole(60), k, l, Whole(60), c),
                annual_return |-> ar, volatility |-> v, max_drawdown |-> m]] :
        k \in Around(50), l \in Around(60), c \in Around(40),
        ar \in {F(-1), F(0), Whole(5)}, v \in {Whole(30), Whole(31)},
        m \in {Whole(-30), Whole(24), Whole(25), Whole(26)}}

TierTotals ==
    {Whole(5 * k) : k \in 0..MaxTierSteps}
    \cup Around(55) \cup Around(65) \cup Around(75) \cup Around(85)

ConfidenceCalls ==
    {[method |-> "generate_confidence_level",
      args |-> [score_breakdown |-> ScoreBreakdown(t, x, x, x, x, x)]] :
        t \in TierTotals, x \in {Whole(0), Whole(50), Whole(100)}}

InitExplainer ==
    /\ df = NewTable(FlatBar)
    /\ premium_rate = None
    /\ score = NaN
    /\ signal = NoSignal
    /\ strategy = BALANCED_STRATEGY
    /\ call \in ReasonCalls \cup WarningCalls \cup ConfidenceCalls
    /\ result = NoResult
    /\ NoInfra

GenerateReasons ==
    /\ call.method = "generate_reasons"
    /\ result = NoResult
    /\ result' = [kind |-> "reasons", list |-> explainer_generate_reasons(call.args)]
    /\ UNCHANGED <<df, premium_rate, score, signal, strategy, call, infra_vars>>

GenerateRiskWarnings ==
    /\ call.method = "generate_risk_warnings"
    /\ result = NoResult
    /\ result' = [kind |-> "warnings", list |-> generate_risk_warnings(call.args)]
    /\ UNCHANGED <<df, premium_rate, score, signal, strategy, call, infra_vars>>

GenerateConfidenceLevel ==
    /\ call.method = "generate_confidence_level"
    /\ result = NoResult
    /\ result' = [kind |-> "confidence",
                  level |-> generate_confidence_level(call.args.score_breakdown)]
    /\ UNCHANGED <<df, premium_rate, score, signal, strategy, call, infra_vars>>

NextExplainer == GenerateReasons \/ GenerateRiskWarnings \/ GenerateConfidenceLevel

SpecExplainer == InitExplainer /\ [][NextExplainer]_vars

\* the place of a tier from the lowest, 1, to the highest, 5
TierRank(level) ==
    CHOOSE i \in 1..5 : <<LOW, LOW_MEDIUM, MEDIUM, HIGH, VERY_HIGH>>[i] = level

ClaimedTier(t) ==
    IF Ge(t, Whole(85)) THEN VERY_HIGH
    ELSE IF Ge(t, Whole(75)) /\ Lt(t, Whole(85)) THEN HIGH
    ELSE IF Ge(t, Whole(65)) /\ Lt(t, Whole(75)) THEN MEDIUM
    ELSE IF Ge(t, Whole(55)) /\ Lt(t, Whole(65)) THEN LOW_MEDIUM
    ELSE LOW

ConfidenceGiven == result.kind = "confidence"

(* C18: generate_confidence_level depends on total_score only: very high    *)
(* from 85, high from 75 to below 85, medium from 65 to below 75,           *)
(* low-medium from 55 to below 65, low below 55; the tier never gets lower  *)
(* when total_score increases.                                              *)
C18_ConfidenceTier ==
    ConfidenceGiven =>
      LET b == call.args.score_breakdown
      IN  /\ result.level = ClaimedTier(b.total_score)
          /\ \A t \in TierTotals :
               Gt(t, b.total_score) =>
                 TierRank(generate_confidence_level([b EXCEPT !.total_score = t]))
                   >= TierRank(result.level)

C18_Witness ==
    /\ ConfidenceGiven
    /\ call.args.score_breakdown.total_score = Whole(75)
    /\ call.args.score_breakdown.return_score = Whole(0)
    /\ result.level = HIGH

ReasonsGiven == result.kind = "reasons"

\* the place of a dimension in the order of the reasons
ReasonPlace(dimension) ==
    CHOOSE i \in 1..6 :
        <<"return", "risk", "liquidity", "fee", "technical", "overall">>[i] = dimension

\* the threshold a sub-score has to reach for its dimension's reason
ReasonThreshold(b, dimension) ==
    CASE dimension = "return" -> Ge(b.return_score, Whole(70))
      [] dimension = "risk" -> Ge(b.risk_score, Whole(70))
      [] dimension = "liquidity" -> Ge(b.liquidity_score, Whole(85))
      [] dimension = "fee" -> Ge(b.fee_score, Whole(70))
      [] dimension = "technical" -> Ge(b.technical_score, Whole(60))
      [] dimension = "overall" -> Ge(b.total_score, Whole(70))

WarningsGiven == result.kind = "warnings"

\* one of the three sub-scores is below its warning threshold
BelowWarningThreshold(b) ==
    \/ Lt(b.risk_score, Whole(50))
    \/ Lt(b.liquidity_score, Whole(60))
    \/ Lt(b.technical_score, Whole(40))

(* C20: generate_risk_warnings returns at least one warning whenever        *)
(* risk_score < 50, liquidity_score < 60 or technical_score < 40, and an    *)
(* empty list when none of these holds and annual_return >= 0.              *)
C20_Warnings ==
    WarningsGiven =>
      LET b == call.args.score_breakdown
      IN  /\ BelowWarningThreshold(b) => Len(result.list) >= 1
          /\ ~BelowWarningThreshold(b) /\ Ge(call.args.annual_return, F(0))
               => result.list = <<>>

-----------------------------------------------------------------------------
(* utils/retry.py: one call of a function wrapped by                        *)
(* retry(max_attempts, delay, backoff).  Delays are in milliseconds and the *)
(* backoff factor is a ratio <<numerator, denominator>>.  The wrapped       *)
(* function is free to return or to raise at each invocation; an exception  *)
(* is named by the invocation that raised it.                               *)

MaxAttempts == 4

Delays == {1000, 2000}

Backoffs == {<<1, 1>>, <<3, 2>>, <<2, 1>>}

\* current_delay *= backoff
next_delay(current_delay, backoff) == (current_delay * backoff[1]) \div backoff[2]

\* the wait after every failed invocation, the last one included
retry_or_raise_always_sleeping(w) ==
    [w EXCEPT !.sleeps = Append(w.sleeps, w.current_delay),
              !.current_delay = next_delay(w.current_delay, w.backoff),
              !.attempt = w.attempt + 1,
              !.pc = IF w.attempt < w.max_attempts - 1 THEN "loop" ELSE "raised"]

\* the except clause, lines 29-36, after last_exception = e
retry_or_raise(w) ==
    IF w.attempt < w.max_attempts - 1
      THEN [w EXCEPT !.sleeps = Append(w.sleeps, w.current_delay),
                     !.current_delay = next_delay(w.current_delay, w.backoff),
                     !.attempt = w.attempt + 1]
    ELSE [w EXCEPT !.pc = "raised"]

\* wrapper(*args, **kwargs) is entered: lines 23-24
InitRetry ==
    /\ Only_wrapper
    /\ \E m \in 0..MaxAttempts, d \in Delays, b \in Backoffs :
         wrapper = [pc |-> "loop", max_attempts |-> m, delay |-> d, backoff |-> b,
                    attempt |-> 0, current_delay |-> d, last_exception |-> 0,
                    invocations |-> <<>>, sleeps |-> <<>>]

\* func returns: line 28
InvokeReturns ==
    /\ wrapper.pc = "loop"
    /\ wrapper.attempt < wrapper.max_attempts
    /\ wrapper' = [wrapper EXCEPT !.invocations = Append(@, "returned"),
                                  !.pc = "returned"]
    /\ UNCHANGED but_wrapper

\* func raises an Exception: lines 29-36
InvokeRaises ==
    /\ wrapper.pc = "loop"
    /\ wrapper.attempt < wrapper.max_attempts
    /\ wrapper' = retry_or_raise(
                     [wrapper EXCEPT !.invocations = Append(@, "raised"),
                                     !.last_exception = Len(wrapper.invocations) + 1])
    /\ UNCHANGED but_wrapper

\* the loop ends without a return or a raise: line 38
ReturnNone ==
    /\ wrapper.pc = "loop"
    /\ wrapper.attempt >= wrapper.max_attempts
    /\ wrapper' = [wrapper EXCEPT !.pc = "returned_none"]
    /\ UNCHANGED but_wrapper

NextRetry == InvokeReturns \/ InvokeRaises \/ ReturnNone

SpecRetry == InitRetry /\ [][NextRetry]_vars

\* b^k of a ratio, as a ratio
RECURSIVE RatioPower(_, _)
RatioPower(b, k) ==
    IF k = 0 THEN <<1, 1>>
    ELSE <<b[1] * RatioPower(b, k - 1)[1], b[2] * RatioPower(b, k - 1)[2]>>

\* the invocations that raised
Raises(w) == {k \in 1..Len(w.invocations) : w.invocations[k] = "raised"}

(* C21: the wrapped function is invoked at most max_attempts times; the     *)
(* wrapper returns at the first invocation that succeeds and invokes no     *)
(* more; when all max_attempts invocations raised, the exception of the     *)
(* last one is raised; waits happen only between two consecutive            *)
(* invocations, the k-th lasting delay * backoff^(k-1).                     *)
C21_Retry ==
    LET w == wrapper
        n == Len(w.invocations)
    IN  wrapper.pc # "none" =>
          /\ n <= w.max_attempts
          /\ \A k \in 1..n : w.invocations[k] = "returned" => k = n /\ w.pc = "returned"
          /\ w.pc = "returned" => n >= 1 /\ w.invocations[n] = "returned"
          /\ w.pc = "raised" =>
               n = w.max_attempts /\ Raises(w) = 1..n /\ w.last_exception = n
          /\ Raises(w) = 1..w.max_attempts /\ w.max_attempts >= 1 => w.pc = "raised"
          /\ Len(w.sleeps) = IF w.pc = "loop" THEN n ELSE Max(n - 1, 0)
          /\ \A k \in 1..Len(w.sleeps) :
               w.sleeps[k] * RatioPower(w.backoff, k - 1)[2]
                 = w.delay * RatioPower(w.backoff, k - 1)[1]

C21_Witness ==
    /\ wrapper.pc = "raised"
    /\ wrapper.max_attempts = 4
    /\ wrapper.backoff = <<3, 2>>
    /\ wrapper.sleeps = <<2000, 3000, 4500>>

-----------------------------------------------------------------------------
(* data/service.py: the caches of ETFDataService.  Time is counted in half  *)
(* hours since the service was constructed.  A behaviour follows the entry  *)
(* of one key of one of the four caches; the value fetched at time t from   *)
(* the data source is written t.                                            *)

MaxClock == 60

DayLength == 48

\* the validity written in each cache test, in half hours
Validity == [etf_list |-> 8, hist |-> 2, holdings |-> 48, nav |-> 2]

CacheKinds == DOMAIN Validity

NoEntry == [time |-> -1]

NoReturn == [outcome |-> "none"]

\* timedelta.seconds: the seconds of the difference within its last day, the
\* days being held in timedelta.days
timedelta_seconds(age) == age % DayLength

\* the cache test: lines 42-44, 202-205, 351-354, 413-416
cache_is_valid(s, refresh) ==
    /\ ~refresh
    /\ s.cache # NoEntry
    /\ timedelta_seconds(s.now - s.cache.time) < Validity[s.kind]

\* the age of the entry at the call, -1 without an entry
AgeAt(s) == IF s.cache = NoEntry THEN -1 ELSE s.now - s.cache.time

\* one call of the getter; if the data source is called it fails or gives
\* fetched
get_cached(s, refresh, fetch_fails, fetched) ==
    IF cache_is_valid(s, refresh)
      THEN [s EXCEPT !.last = [outcome |-> "hit", value |-> s.cache.value,
                               age |-> AgeAt(s)]]
    ELSE IF fetch_fails
      THEN [s EXCEPT !.last = [outcome |-> "failed", age |-> AgeAt(s)]]
    ELSE [s EXCEPT !.cache = [time |-> s.now, value |-> fetched, fetched |-> fetched],
                   !.last = [outcome |-> "fetched", value |-> fetched,
                             age |-> AgeAt(s)]]

InitCache ==
    /\ Only_service
    /\ \E k \in CacheKinds :
         service = [kind |-> k, now |-> 0, cache |-> NoEntry, last |-> NoReturn]

\* half an hour passes; the last return has been used
Tick ==
    /\ service.now < MaxClock
    /\ service' = [service EXCEPT !.now = @ + 1, !.last = NoReturn]
    /\ UNCHANGED but_service

\* get_etf_list(refresh), get_historical_data, get_etf_holdings or
\* get_net_value_history on the key
Get ==
    \E refresh \in BOOLEAN, fetch_fails \in BOOLEAN :
        /\ refresh => service.kind = "etf_list"
        /\ service' = get_cached(service, refresh, fetch_fails, service.now)
        /\ UNCHANGED but_service

NextCache == Tick \/ Get

SpecCache == InitCache /\ [][NextCache]_vars

(* C22: a cached entry is served only while its age is below the validity   *)
(* of its cache (ETF list 4 hours, history 1 hour, net values 1 hour,       *)
(* holdings 24 hours); a call that finds an older entry fetches again.      *)
C22_ServedOnlyWhileFresh ==
    service.last.outcome = "hit" =>
        service.last.age < Validity[service.kind]

(***************************************************************************)
(* analysis/batch_reporter.py: analyze_single_etf over the history cache   *)
(* of its ETFDataService.  The clock counts half hours; a bar is its date  *)
(* (a day number), its close and its high; a table is a sequence of bars.  *)
(***************************************************************************)

\* the last clock reading of an analysis, in half hours
MaxBatchClock == 5

Prices == {1, 2}

\* the day of a clock reading: datetime.now().strftime("%Y%m%d")
DayOf(now) == now \div DayLength

\* quotes of get_realtime_quote: price and high of the day
Quotes == {[price |-> p, high |-> h] : p \in Prices, h \in Prices}

\* the tables the data source returns for end_date = today: the last bar is
\* dated today or, before the first trade of the day, the day before
SourceTables(today) ==
    {<<[date |-> d, close |-> c, high |-> 2]>> : d \in {today - 1, today}, c \in Prices}

Larger(a, b) == IF a >= b THEN a ELSE b

\* the keywords of the call self.advisor.analyze(df, premium_rate, session=session)
analyze_call_keywords == {"session"}

\* parameters of TradingAdvisor.analyze after self: df, premium_rate
analyze_parameters == {"df", "premium_rate"}

\* fields of the TradingSignal dataclass
TradingSignalFields ==
    {"signal_type", "confidence", "reasons", "indicators", "risk_level",
     "price_target", "stop_loss"}

\* attributes of the signal read to build the ETFRecommendation
signal_attributes_read ==
    {"signal_type", "confidence", "risk_level", "entry_price", "price_target",
     "stop_loss", "reasons"}

\* Python raises TypeError for a keyword the function has no parameter for
raises_TypeError(keywords, parameters) == ~(keywords \subseteq parameters)

\* and AttributeError for an attribute the object does not have
raises_AttributeError(read, fields) == ~(read \subseteq fields)

\* _update_with_realtime_data: the table it returns, and whether that is the
\* object it was given (df.loc assignment) or a new one (pd.concat)
update_with_realtime_data(table, quote, today) ==
    LET n == Len(table)
        last == table[n]
    IN  IF last.date = today
        THEN [in_place |-> TRUE,
              table |-> [table EXCEPT ![n] =
                            [date |-> last.date, close |-> quote.price,
                             high |-> Larger(last.high, quote.high)]]]
        ELSE [in_place |-> FALSE,
              table |-> Append(table, [date |-> today, close |-> quote.price,
                                       high |-> quote.high])]

\* the history cache entry of today's key, as the service sees it
HistEntry(r) ==
    [kind |-> "hist", now |-> r.now, cache |-> r.hist_cache[DayOf(r.now)]]

\* analyze_single_etf(code): quote_outcome is what get_realtime_quote does,
\* source what the data source answers if get_historical_data has to fetch
\* (<<>>: every source fails or is empty, and the service raises)
analyze_single_etf(r, quote_outcome, quote, source) ==
    LET key == DayOf(r.now)
        hit == cache_is_valid(HistEntry(r), FALSE)
        got == IF hit THEN r.hist_cache[key].value ELSE source
        cached == IF hit THEN r.hist_cache
                  ELSE [r.hist_cache EXCEPT ![key] =
                           [time |-> r.now, value |-> source, fetched |-> source]]
        upd == update_with_realtime_data(got, quote, key)
        after == IF upd.in_place
                 THEN [cached EXCEPT ![key].value = upd.table]
                 ELSE cached
        returned ==
            IF raises_TypeError(analyze_call_keywords, analyze_parameters)
            THEN "TypeError"
            ELSE IF raises_AttributeError(signal_attributes_read, TradingSignalFields)
                 THEN "AttributeError"
                 ELSE "recommendation"
    IN  IF quote_outcome # "found"
        THEN [r EXCEPT !.last = [outcome |-> "None", quote |-> quote_outcome,
                                 history |-> "not asked", hit |-> FALSE]]
        ELSE IF ~hit /\ source = <<>>
        THEN [r EXCEPT !.last = [outcome |-> "None", quote |-> "found",
                                 history |-> "raised", hit |-> FALSE]]
        ELSE [r EXCEPT !.hist_cache = after,
                       !.last = [outcome |-> IF returned = "recommendation"
                                             THEN "recommendation" ELSE "None",
                                 cause |-> returned,
                                 quote |-> "found", history |-> "table",
                                 hit |-> hit, served |-> got,
                                 as_fetched |-> IF hit
                                                THEN r.hist_cache[key].fetched
                                                ELSE source]]

NoReportReturn == [outcome |-> "none"]

InitBatch ==
    /\ Only_reporter
    /\ reporter = [now |-> 0,
                   hist_cache |-> [d \in 0..DayOf(MaxBatchClock) |-> NoEntry],
                   last |-> NoReportReturn]

\* time passes
BatchTick ==
    /\ reporter.now < MaxBatchClock
    /\ reporter' = [reporter EXCEPT !.now = @ + 1, !.last = NoReportReturn]
    /\ UNCHANGED but_reporter

AnalyzeSingleEtf ==
    \E quote_outcome \in {"found", "not found", "raised"}, quote \in Quotes,
       source \in SourceTables(DayOf(reporter.now)) \cup {<<>>} :
        /\ reporter' = analyze_single_etf(reporter, quote_outcome, quote, source)
        /\ UNCHANGED but_reporter

NextBatch == BatchTick \/ AnalyzeSingleEtf

SpecBatch == InitBatch /\ [][NextBatch]_vars

\* C23: every cache hit of get_historical_data inside analyze_single_etf
\* returns the bars as they were fetched, whatever earlier analyses merged
C23_CacheKeepsFetchedBars ==
    (reporter.last.outcome # "none" /\ reporter.last.hit)
        => reporter.last.served = reporter.last.as_fetched

\* C24: with the quote found and a non-empty history, analyze_single_etf
\* returns an ETFRecommendation
C24_RecommendationWhenDataPresent ==
    (reporter.last.outcome # "none" /\ reporter.last.quote = "found"
        /\ reporter.last.history = "table")
        => reporter.last.outcome = "recommendation"

(***************************************************************************)
(* scheduler/report_job.py and storage/report_storage.py.  An              *)
(* ETFRecommendation is its code, score, signal_type and current_price;    *)
(* the other fields are carried along unread.                               *)
(***************************************************************************)

MaxRecs == 3

Codes == {"510300", "159915"}

RecScores == {1, 2}

\* SignalType(...).value, the text analyze_single_etf stores as signal_type:
\* the Chinese labels of the enumeration, written here by their meaning
SignalValue ==
    [STRONG_BUY |-> "label: strongly buy", BUY |-> "label: buy",
     HOLD |-> "label: hold", SELL |-> "label: sell",
     STRONG_SELL |-> "label: strongly sell"]

ETFRecommendation(code, score_, signal_type, current_price) ==
    [code |-> code, score |-> score_, signal_type |-> signal_type,
     current_price |-> current_price]

\* lists of at most n elements of S
UpTo(S, n) == UNION {[1..k -> S] : k \in 0..n}

\* the later recommendation replaces the recorded one on a tie as well
replaces_on_tie(rec, best) == rec.score >= best.score

\* rec.score > best_recommendations[code].score
replaces(rec, best) == rec.score > best.score

\* one pass of the loop over recommendations; the dict keeps insertion order
record_best(best, rec) ==
    IF \E i \in 1..Len(best) : best[i].code = rec.code
    THEN [i \in 1..Len(best) |->
            IF best[i].code = rec.code /\ replaces(rec, best[i])
            THEN rec ELSE best[i]]
    ELSE Append(best, rec)

RECURSIVE best_recommendations(_)
best_recommendations(recs) ==
    IF recs = <<>> THEN <<>>
    ELSE record_best(best_recommendations(SubSeq(recs, 1, Len(recs) - 1)),
                     recs[Len(recs)])

\* sorted(..., key=score, reverse=True): stable, equal scores keep their order
RECURSIVE sorted_by_score(_)
sorted_by_score(q) ==
    IF q = <<>> THEN <<>>
    ELSE LET s == sorted_by_score(SubSeq(q, 1, Len(q) - 1))
             x == q[Len(q)]
             k == Cardinality({i \in 1..Len(s) : s[i].score >= x.score})
         IN  SubSeq(s, 1, k) \o <<x>> \o SubSeq(s, k + 1, Len(s))

deduplicate_recommendations(recs) == sorted_by_score(best_recommendations(recs))

\* _convert_recommendations_to_dict: the key 'signal' holds rec.signal_type
convert_recommendations_to_dict(recs) ==
    [i \in 1..Len(recs) |->
        [code |-> recs[i].code, signal |-> recs[i].signal_type,
         score |-> recs[i].score, current_price |-> recs[i].current_price]]

CountSignal(dicts, name) ==
    Cardinality({i \in 1..Len(dicts) : dicts[i].signal = name})

\* _calculate_statistics: compares rec['signal'] with the member names
calculate_statistics(dicts) ==
    [strong_buy |-> CountSignal(dicts, "STRONG_BUY"),
     buy |-> CountSignal(dicts, "BUY"),
     hold |-> CountSignal(dicts, "HOLD"),
     sell |-> CountSignal(dicts, "SELL"),
     strong_sell |-> CountSignal(dicts, "STRONG_SELL")]

\* the summary_data save_summary writes
save_summary(dicts) ==
    [total_count |-> Len(dicts), recommendations |-> dicts,
     statistics |-> calculate_statistics(dicts)]

(* _deduplicate_recommendations as a call of its own *)

DedupRecs ==
    {ETFRecommendation(c, s, SignalValue[HOLD], p) :
        c \in Codes, s \in RecScores, p \in {1, 2}}

InitDedup ==
    /\ Only_job
    /\ \E recs \in UpTo(DedupRecs, MaxRecs) :
        job = [pc |-> "deduplicate", recommendations |-> recs]

Deduplicate ==
    /\ job.pc = "deduplicate"
    /\ job' = [pc |-> "deduplicated", recommendations |-> job.recommendations,
               returned |-> deduplicate_recommendations(job.recommendations)]
    /\ UNCHANGED but_job

SpecDedup == InitDedup /\ [][Deduplicate]_vars

\* the first of the recommendations of its code with the highest score
EarliestBest(recs, code) ==
    LET of_code == {i \in 1..Len(recs) : recs[i].code = code}
        top == {i \in of_code : \A j \in of_code : recs[j].score <= recs[i].score}
    IN  recs[CHOOSE i \in top : \A j \in top : i <= j]

\* C27: _deduplicate_recommendations returns one recommendation per distinct
\* code, the earliest of those with the highest score, ordered by score
\* descending, and applying it again changes nothing
C27_Deduplicate ==
    job.pc = "deduplicated" =>
        LET recs == job.recommendations
            out == job.returned
        IN  /\ {out[i].code : i \in 1..Len(out)} = {recs[i].code : i \in 1..Len(recs)}
            /\ \A i, j \in 1..Len(out) : out[i].code = out[j].code => i = j
            /\ \A i \in 1..Len(out) : out[i] = EarliestBest(recs, out[i].code)
            /\ \A i, j \in 1..Len(out) : i < j => out[i].score >= out[j].score
            /\ deduplicate_recommendations(out) = out

\* a code given twice with the same score and different prices, after a
\* lower-scored other code: the first of the two is kept and moves to the front
C27_Witness ==
    /\ job.pc = "deduplicated"
    /\ Len(job.recommendations) = 3
    /\ job.recommendations[1].score < job.recommendations[2].score
    /\ job.recommendations[2].code = job.recommendations[3].code
    /\ job.recommendations[2].score = job.recommendations[3].score
    /\ job.recommendations[2] # job.recommendations[3]
    /\ job.recommendations[1].code # job.recommendations[2].code
    /\ job.returned = <<job.recommendations[2], job.recommendations[1]>>

(* save_summary as ReportJob.execute calls it *)

SummaryRecs ==
    {ETFRecommendation("510300", 1, SignalValue[m], 1) : m \in SignalType}

InitSummary ==
    /\ Only_job
    /\ \E recs \in UpTo(SummaryRecs, MaxRecs) \ {<<>>} :
        job = [pc |-> "save_summary", recommendations |-> recs]

SaveSummary ==
    /\ job.pc = "save_summary"
    /\ job' = [pc |-> "summary saved", recommendations |-> job.recommendations,
               summary |-> save_summary(
                   convert_recommendations_to_dict(job.recommendations))]
    /\ UNCHANGED but_job

SpecSummary == InitSummary /\ [][SaveSummary]_vars

ReportFormats == <<"html", "markdown", "json">>

\* what happens to one format of one pool: generate_batch_report raises, or
\* it returns and save_report raises, or the report is written
FormatOutcomes == {"generate raised", "save raised", "saved"}

\* the pools both configured and available, in configured order
PoolLists == {<<>>, <<"broad index">>, <<"broad index", "medical">>}

\* what generate_batch_report returns for a pool: never an empty list
JobPoolRecs ==
    {<<ETFRecommendation(c, s, SignalValue[BUY], 1)>> : c \in Codes, s \in RecScores}

\* _generate_pool_reports: the recommendations of the first format generated;
\* no exception leaves it
generate_pool_reports(outcomes, recs) ==
    IF \E f \in 1..Len(outcomes) : outcomes[f] # "generate raised"
    THEN recs ELSE <<>>

RECURSIVE all_recommendations(_, _)
all_recommendations(outcomes, recs) ==
    IF outcomes = <<>> THEN <<>>
    ELSE all_recommendations(SubSeq(outcomes, 1, Len(outcomes) - 1),
                             SubSeq(recs, 1, Len(recs) - 1))
         \o generate_pool_reports(outcomes[Len(outcomes)], recs[Len(recs)])

\* the reports written to the file system
ReportsSaved(outcomes) ==
    Cardinality({pf \in (1..Len(outcomes)) \X (1..Len(ReportFormats)) :
                    outcomes[pf[1]][pf[2]] = "saved"})

execute(j) ==
    LET all == all_recommendations(j.outcomes, j.recs)
        dedup == IF all # <<>> THEN deduplicate_recommendations(all) ELSE all
        errors == IF dedup # <<>> /\ j.summary_fails
                  THEN <<"save_summary failed">> ELSE <<>>
    IN  [pc |-> "executed",
         outcomes |-> j.outcomes,
         summary |-> IF dedup # <<>> /\ ~j.summary_fails
                     THEN save_summary(convert_recommendations_to_dict(dedup))
                     ELSE [total_count |-> -1],
         result |-> [success |-> errors = <<>>,
                     reports_generated |-> Len(j.pool_list) * Len(ReportFormats),
                     pools_processed |-> Len(j.pool_list),
                     errors |-> errors]]

InitJob ==
    /\ Only_job
    /\ \E pool_list \in PoolLists, summary_fails \in BOOLEAN :
       \E outcomes \in [1..Len(pool_list) -> [1..Len(ReportFormats) -> FormatOutcomes]],
          recs \in [1..Len(pool_list) -> JobPoolRecs] :
            job = [pc |-> "execute", pool_list |-> pool_list,
                   outcomes |-> outcomes, recs |-> recs,
                   summary_fails |-> summary_fails]

Execute ==
    /\ job.pc = "execute"
    /\ job' = execute(job)
    /\ UNCHANGED but_job

SpecJob == InitJob /\ [][Execute]_vars

\* C25: after execute, reports_generated is the number of reports written,
\* and a report that failed to be generated or saved makes success False
\* with an entry in errors
C25_ResultCountsSavedReports ==
    job.pc = "executed" =>
        /\ job.result.reports_generated = ReportsSaved(job.outcomes)
        /\ (\E p \in 1..Len(job.outcomes), f \in 1..Len(ReportFormats) :
                job.outcomes[p][f] # "saved")
            => (~job.result.success /\ job.result.errors # <<>>)

(* recommendation/scorer.py: the strongest indicator readings against no    *)
(* indicator data                                                           *)

\* the last row reads price > MA5 > MA20, 40 <= RSI <= 60, MACD > Signal and
\* MACD > 0
StrongestReading(d) ==
    /\ Readable(d)
    /\ DefinedLast(d, {"MA5", "MA20", "RSI", "MACD", "Signal"})
    /\ Gt(F(LastOf(d, "close")), LastOf(d, "MA5"))
    /\ Gt(LastOf(d, "MA5"), LastOf(d, "MA20"))
    /\ Ge(LastOf(d, "RSI"), F(40 * Micro)) /\ Le(LastOf(d, "RSI"), F(60 * Micro))
    /\ Gt(LastOf(d, "MACD"), LastOf(d, "Signal"))
    /\ Gt(LastOf(d, "MACD"), F(0))

\* C26: a table whose three indicators all show their strongest reading gets
\* a technical_score of at least the neutral 50 given without a table, and a
\* total_score not below the one of the same call without a table
C26_StrongestNotBelowNeutral ==
    (Scored /\ StrongestReading(call.args.df)) =>
        /\ Ge(result.technical_score, Whole(50))
        /\ Ge(result.total_score,
              calculate_score(strategy, [call.args EXCEPT !.df = NoTable]).total_score)

(***************************************************************************)
(* scheduler/job_scheduler.py and scheduler/trading_calendar.py.  Days are *)
(* counted from Monday 2026-09-21; day 4 is Friday 2026-09-25, a holiday   *)
(* of HOLIDAYS_2026.                                                       *)
(***************************************************************************)

MaxSchedDay == 8

\* the days of HOLIDAYS_2026 within the days counted
Holidays == {4, 10, 11, 14, 15, 16}

\* date.weekday(): 0 is Monday
weekday(day) == day % 7

is_trading_day(day) ==
    IF weekday(day) >= 5 THEN FALSE
    ELSE IF day \in Holidays THEN FALSE
    ELSE TRUE

NoRun == [session |-> "none"]

\* the job body without the calendar test
execute_report_unchecked(s, session, outcome, mail_ok) ==
    [s EXCEPT !.last =
        [session |-> session, day |-> s.day, executed |-> <<session>>,
         emails |-> IF outcome = "raised"
                    THEN IF s.email_service /\ mail_ok THEN 1 ELSE 0
                    ELSE IF outcome = "success" /\ s.email_service
                            /\ s.send_daily_summary /\ mail_ok
                         THEN 1 ELSE 0]]

\* _execute_morning_report / _execute_afternoon_report: outcome is what
\* ReportJob.execute does (a result with success True or False, or an
\* exception), mail_ok whether the mail goes out once it is attempted
execute_report(s, session, outcome, mail_ok) ==
    IF ~is_trading_day(s.day)
    THEN [s EXCEPT !.last = [session |-> session, day |-> s.day,
                             executed |-> <<>>, emails |-> 0]]
    ELSE execute_report_unchecked(s, session, outcome, mail_ok)

InitScheduler ==
    /\ Only_scheduler
    /\ \E email_service \in BOOLEAN, send_daily_summary \in BOOLEAN :
        scheduler = [day |-> 0, slot |-> "morning",
                     email_service |-> email_service,
                     send_daily_summary |-> send_daily_summary,
                     last |-> NoRun]

\* the 10:00 trigger fires
ExecuteMorningReport ==
    /\ scheduler.slot = "morning"
    /\ \E outcome \in {"success", "failure", "raised"}, mail_ok \in BOOLEAN :
        scheduler' = [execute_report(scheduler, "morning", outcome, mail_ok)
                        EXCEPT !.slot = "afternoon"]
    /\ UNCHANGED but_scheduler

\* the 14:30 trigger fires
ExecuteAfternoonReport ==
    /\ scheduler.slot \in {"morning", "afternoon"}
    /\ \E outcome \in {"success", "failure", "raised"}, mail_ok \in BOOLEAN :
        scheduler' = [execute_report(scheduler, "afternoon", outcome, mail_ok)
                        EXCEPT !.slot = "evening"]
    /\ UNCHANGED but_scheduler

\* midnight
NextDay ==
    /\ scheduler.day < MaxSchedDay
    /\ scheduler' = [scheduler EXCEPT !.day = @ + 1, !.slot = "morning",
                                      !.last = NoRun]
    /\ UNCHANGED but_scheduler

NextScheduler == ExecuteMorningReport \/ ExecuteAfternoonReport \/ NextDay

SpecScheduler == InitScheduler /\ [][NextScheduler]_vars

\* C29: a job run on a day that is no trading day calls ReportJob.execute
\* not at all and sends no mail; a run on a trading day calls execute once,
\* for its own session
C29_SkipsNonTradingDays ==
    scheduler.last # NoRun =>
        IF weekday(scheduler.last.day) >= 5 \/ scheduler.last.day \in Holidays
        THEN scheduler.last.executed = <<>> /\ scheduler.last.emails = 0
        ELSE scheduler.last.executed = <<scheduler.last.session>>

\* the afternoon job has run on the holiday Friday and done nothing, with
\* the mail service configured
C29_Witness ==
    /\ scheduler.last # NoRun
    /\ scheduler.last.day = 4
    /\ weekday(scheduler.last.day) < 5
    /\ scheduler.last.session = "afternoon"
    /\ scheduler.email_service /\ scheduler.send_daily_summary
    /\ scheduler.last.executed = <<>>

(***************************************************************************)
(* scheduler/daemon.py: MonitorDaemon.start and stop, each invocation a    *)
(* process of its own over the shared PID file.  The daemon forked by      *)
(* invocation i has pid i; pidfile 0 is no PID file.  The test of          *)
(* _is_running and the opening and reading of the file in stop are taken   *)
(* as one step each.                                                       *)
(***************************************************************************)

MaxInvocations == 3

Invocations == 1..MaxInvocations

NotInvoked == [op |-> "none", pc |-> "none", pid |-> 0]

\* _is_running, with the PID file removed when it names no live process
is_running(d) == d.pidfile # 0 /\ d.pidfile \in d.alive

InitDaemon ==
    /\ Only_daemon
    /\ daemon = [pidfile |-> 0, alive |-> {}, signalled |-> {},
                 inv |-> [i \in Invocations |-> NotInvoked]]

\* a command line gives the start or the stop command
Invoke ==
    \E i \in Invocations, op \in {"start", "stop"} :
        /\ daemon.inv[i] = NotInvoked
        /\ \A j \in 1..(i - 1) : daemon.inv[j] # NotInvoked
        /\ daemon' = [daemon EXCEPT !.inv[i] = [op |-> op, pc |-> "check", pid |-> 0]]
        /\ UNCHANGED but_daemon

\* start: if self._is_running(): return False
StartCheck ==
    \E i \in Invocations :
        /\ daemon.inv[i].op = "start" /\ daemon.inv[i].pc = "check"
        /\ daemon' = IF is_running(daemon)
                     THEN [daemon EXCEPT !.inv[i].pc = "returned False"]
                     ELSE [daemon EXCEPT !.inv[i].pc = "fork", !.pidfile = 0]
        /\ UNCHANGED but_daemon

\* start: the two forks; the grandchild lives on as the daemon
StartFork ==
    \E i \in Invocations :
        /\ daemon.inv[i].op = "start" /\ daemon.inv[i].pc = "fork"
        /\ daemon' = [daemon EXCEPT !.inv[i].pc = "write pidfile",
                                    !.inv[i].pid = i,
                                    !.alive = @ \cup {i}]
        /\ UNCHANGED but_daemon

\* start, in the daemon: self._write_pidfile(), then self._run()
WritePidfile ==
    \E i \in Invocations :
        /\ daemon.inv[i].op = "start" /\ daemon.inv[i].pc = "write pidfile"
        /\ daemon' = [daemon EXCEPT !.inv[i].pc = "running", !.pidfile = i]
        /\ UNCHANGED but_daemon

\* _shutdown, the daemon's handler of SIGTERM: unlink the PID file, exit
Shutdown ==
    \E i \in Invocations :
        /\ i \in daemon.alive /\ i \in daemon.signalled
        /\ daemon' = [daemon EXCEPT !.inv[i].pc = "exited",
                                    !.pidfile = 0,
                                    !.alive = @ \ {i}]
        /\ UNCHANGED but_daemon

\* stop: no PID file, return False; else read the pid
StopRead ==
    \E i \in Invocations :
        /\ daemon.inv[i].op = "stop" /\ daemon.inv[i].pc = "check"
        /\ daemon' = IF daemon.pidfile = 0
                     THEN [daemon EXCEPT !.inv[i].pc = "returned False"]
                     ELSE [daemon EXCEPT !.inv[i].pc = "kill",
                                         !.inv[i].pid = daemon.pidfile]
        /\ UNCHANGED but_daemon

\* stop: os.kill(pid, SIGTERM); OSError for a dead process, return False
StopKill ==
    \E i \in Invocations :
        /\ daemon.inv[i].op = "stop" /\ daemon.inv[i].pc = "kill"
        /\ daemon' = IF daemon.inv[i].pid \in daemon.alive
                     THEN [daemon EXCEPT !.inv[i].pc = "wait",
                                         !.signalled = @ \cup {daemon.inv[i].pid}]
                     ELSE [daemon EXCEPT !.inv[i].pc = "returned False"]
        /\ UNCHANGED but_daemon

\* stop: the wait loop ends, because the process is gone or after ten polls
\* of half a second, and the PID file is unlinked
StopUnlink ==
    \E i \in Invocations :
        /\ daemon.inv[i].op = "stop" /\ daemon.inv[i].pc = "wait"
        /\ daemon' = [daemon EXCEPT !.inv[i].pc = "returned True", !.pidfile = 0]
        /\ UNCHANGED but_daemon

NextDaemon ==
    \/ Invoke \/ StartCheck \/ StartFork \/ WritePidfile \/ Shutdown
    \/ StopRead \/ StopKill \/ StopUnlink

SpecDaemon == InitDaemon /\ [][NextDaemon]_vars

\* C30: at most one daemon process is alive, and the PID file, when there is
\* one, names that process
C30_AtMostOneDaemon ==
    /\ Cardinality(daemon.alive) <= 1
    /\ daemon.pidfile # 0 => daemon.alive = {daemon.pidfile}

=============================================================================
